---------------------------- MODULE Spec2Model ----------------------------
(***************************************************************************)
(* A model of kraaler: the URL store (store/url.go), the warehouse         *)
(* persistence engine (store.Store and its sub-stores) and the worker      *)
(* controller with its workers (worker.go).                                *)
(*                                                                         *)
(* The specifications share the variables:                                 *)
(*   SpecURL    the URL store driven directly through its API              *)
(*   SpecStore  SaveSession driven directly                                *)
(*   SpecIdStore  IDStore.Get driven directly inside transactions          *)
(*   Spec       the controller: dispatch loop, workers, response loop      *)
(*   FairSpec   Spec with weak fairness on the goroutines' own steps       *)
(*   SpecSample, SpecFile, SpecActions, SpecChain, SpecCrawlStore,         *)
(*   SpecActionStore, SpecIdKeys, SpecBodyReader, SpecConsoleReader         *)
(*              one part of the program each, driven directly              *)
(***************************************************************************)
EXTENDS Integers, Sequences, FiniteSets, TLC

VARIABLES
    \* ---- sqlite database (committed state) ----
    dbUrlVisits,   \* table url_visits: sequence of rows, rowid = index
    dbDims,        \* dimension tables: table name -> sequence of tuples
    dbFacts,       \* fact tables: table name -> sequence of rows
    \* ---- store.urlStore ----
    usStrings,     \* urlStore.strings : url string -> URL
    usUrls,        \* urlStore.urls    : URL -> *time.Time
    usIds,         \* urlStore.ids     : URL -> rowid
    resampling,    \* urlStore.resampling
    filters,       \* urlStore.filters (each an OnlyTLD ending)
    sampler,       \* urlStore.sampler ("uni" or "pw")
    \* ---- store.IDStore caches ----
    idCache,       \* IDStore name -> set of [key, id] (live TTL entries)
    \* ---- kraaler.WorkerController and kraaler.Worker ----
    ready,         \* number of signals buffered in wc.ready (capacity 1)
    dpc,           \* position of startQueue
    du,            \* URL held by startQueue between Sample and the send
    rpc,           \* position of the response loop
    rpage,         \* Page held by the response loop
    nworkers,      \* len(wc.workers)
    wpc,           \* worker -> position of Worker.Run
    wreq,          \* worker -> CrawlRequest being served
    wresp,         \* worker -> Page returned by fetch
    container,     \* worker -> state of w.container
    rootDone,      \* the context passed to NewWorkerController is done
    childDone,     \* the context derived by context.WithCancel is done
    adding,        \* AddWorker is blocked in wc.ready <- true
    wneed,         \* worker -> fetch returned a reset error and no new
                   \*           container has been created since
    \* ---- store.FileStore and its root directory ----
    fsFiles,       \* the files under rootDir: path -> the bytes on disk
    fsKnown,       \* FileStore.known : hash -> StoredFile
    fsComp,        \* FileStore.comp ("none" or "gzip")
    fsAllowedMime, \* FileStore.allowedMime (names of the MimeValidators)
    fsStored,      \* the payloads for which Store has created a file
    \* ---- goroutines inside urlStore.Sample ----
    spc,           \* caller -> position in Sample
    su,            \* caller -> the URL the sampler returned to it
    sampled,       \* URL -> how many Sample calls have returned it
    \* ---- the event readers of one fetch ----
    br,            \* responseBodyReader: its goroutine, stream, bodies, stop
    cr,            \* consoleReader: its goroutine, stream, console, stop
    \* ---- observation (history) ----
    hist,          \* the last API call, its arguments and what it returned or did
    stats          \* counters of controller events

vars == <<dbUrlVisits, dbDims, dbFacts, usStrings, usUrls, usIds, resampling,
          filters, sampler, idCache, ready, dpc, du, rpc, rpage, nworkers,
          wpc, wreq, wresp, container, rootDone, childDone, adding,
          wneed, fsFiles, fsKnown, fsComp, fsAllowedMime, fsStored,
          spc, su, sampled, br, cr, hist, stats>>

dbVars   == <<dbDims, dbFacts, idCache>>
usVars   == <<dbUrlVisits, usStrings, usUrls, usIds>>
usConf   == <<resampling, filters, sampler>>
ctlVars  == <<ready, dpc, du, rpc, rpage, nworkers, wpc, wreq, wresp,
              container, rootDone, childDone, adding, wneed, stats>>
fsVars   == <<fsFiles, fsKnown, fsComp, fsAllowedMime, fsStored>>
smVars   == <<spc, su, sampled>>
rdVars   == <<br, cr>>

(***************************************************************************)
(* Bounds                                                                  *)
(***************************************************************************)
MaxRows     == 2    \* rows of url_visits
MaxAddLen   == 2    \* URLs handed to one Add call
MaxSec      == 1    \* largest unix second of a time.Time

(***************************************************************************)
(* time.Time, as far as the URL store uses it                              *)
(***************************************************************************)
NanosPerSecond == 1000000000

Times == [sec : 1..MaxSec, nsec : {7}]

\* (*time.Time)(nil) and sql.NullInt64{Valid: false}
NilTime == [valid |-> FALSE, sec |-> 0, nsec |-> 0]
PtrTime(t) == [valid |-> TRUE, sec |-> t.sec, nsec |-> t.nsec]
NullInt64 == [valid |-> FALSE, int |-> 0]
ValidInt64(n) == [valid |-> TRUE, int |-> n]

\* t.Unix()
TimeToUnix(t) == t.sec

\* time.Unix(sec, nsec)
TimeUnix(sec, nsec) ==
    [sec |-> sec + (nsec \div NanosPerSecond), nsec |-> nsec % NanosPerSecond]

(***************************************************************************)
(* URLs                                                                    *)
(***************************************************************************)
URLS == { [scheme |-> "https", host |-> "a.com", path |-> ""],
          [scheme |-> "https", host |-> "a.com", path |-> "/x"],
          [scheme |-> "http",  host |-> "b.dk",  path |-> ""],
          [scheme |-> "http",  host |-> "localhost", path |-> ""] }

\* (*url.URL).String()
UrlString(u) == u.scheme \o "://" \o u.host \o u.path

\* (*url.URL)(nil)
NilURL == [scheme |-> "", host |-> "", path |-> ""]

\* url.Parse on the strings the store holds
UrlParse(s) == CHOOSE u \in URLS : UrlString(u) = s

\* publicsuffix.PublicSuffix(host)
PublicSuffix(h) ==
    IF h \in {"a.com", "www.a.com"} THEN "com"
    ELSE IF h = "b.dk" THEN "dk"
    ELSE h

\* the second result of publicsuffix.PublicSuffix: the suffix is ICANN managed
SuffixIsICANN(h) == h \in {"a.com", "www.a.com", "b.dk"}

\* OnlyTLD(ending)(u)
OnlyTLD(ending, u) == SuffixIsICANN(u.host) /\ PublicSuffix(u.host) = ending

PassesFilters(fs, u) == \A i \in 1..Len(fs) : OnlyTLD(fs[i], u)

(***************************************************************************)
(* store.urlStore                                                          *)
(***************************************************************************)
EmptyFn == [x \in {} |-> 0]

FnPut(f, k, v) == [x \in (DOMAIN f) \cup {k} |-> IF x = k THEN v ELSE f[x]]
FnDel(f, k)    == [x \in (DOMAIN f) \ {k} |-> f[x]]

UsState == [db |-> dbUrlVisits, strings |-> usStrings, urls |-> usUrls, ids |-> usIds]

\* NewURLStore: load every row of url_visits into the maps
RECURSIVE LoadRows(_, _, _, _)
LoadRows(rows, i, resamp, st) ==
    IF i > Len(rows) THEN st
    ELSE LET u  == UrlParse(rows[i].url)
             lv == rows[i].last_visit
             tp == IF lv.valid /\ resamp
                   THEN PtrTime(TimeUnix(0, lv.int))
                   ELSE NilTime
         IN LoadRows(rows, i + 1, resamp,
                     [st EXCEPT !.strings = FnPut(@, rows[i].url, u),
                                !.ids     = FnPut(@, u, i),
                                !.urls    = FnPut(@, u, tp)])

NewURLStore(rows, resamp) ==
    LoadRows(rows, 1, resamp,
             [db |-> rows, strings |-> EmptyFn, urls |-> EmptyFn, ids |-> EmptyFn])

\* Add without the lookup in us.strings
RECURSIVE UrlsToAddNoDedup(_, _, _)
UrlsToAddNoDedup(urls, fs, strs) ==
    IF urls = <<>> THEN <<>>
    ELSE LET u    == Head(urls)
             rest == UrlsToAddNoDedup(Tail(urls), fs, strs)
         IN IF ~PassesFilters(fs, u) THEN rest ELSE <<u>> \o rest

\* Add, first loop: the URLs that pass the filters and are not known
RECURSIVE UrlsToAdd(_, _, _)
UrlsToAdd(urls, fs, strs) ==
    IF urls = <<>> THEN <<>>
    ELSE LET u    == Head(urls)
             rest == UrlsToAdd(Tail(urls), fs, strs)
         IN IF ~PassesFilters(fs, u) THEN rest
            ELSE IF UrlString(u) \in DOMAIN strs THEN rest
            ELSE <<u>> \o rest

\* Add, second loop: insert each URL; an Exec that fails is skipped
RECURSIVE InsertUrls(_, _, _, _)
InsertUrls(toAdd, i, failing, acc) ==
    IF i > Len(toAdd) THEN acc
    ELSE LET u == toAdd[i]
         IN IF i \in failing
            THEN InsertUrls(toAdd, i + 1, failing, [acc EXCEPT !.failed = TRUE])
            ELSE LET id == Len(acc.st.db) + 1
                     st2 == [db      |-> Append(acc.st.db,
                                                [url |-> UrlString(u), last_visit |-> NullInt64]),
                             strings |-> FnPut(acc.st.strings, UrlString(u), u),
                             urls    |-> FnPut(acc.st.urls, u, NilTime),
                             ids     |-> FnPut(acc.st.ids, u, id)]
                 IN InsertUrls(toAdd, i + 1, failing,
                               [acc EXCEPT !.st = st2, !.count = @ + 1])

\* urlStore.Add: the result [st, count, err]
\*   beginFails : db.Begin or tx.Prepare returns an error
\*   failing    : the positions of urlsToAdd whose Exec returns an error
UrlStoreAdd(st, fs, urls, beginFails, failing) ==
    LET toAdd == UrlsToAdd(urls, fs, st.strings)
    IN IF toAdd = <<>> THEN [st |-> st, count |-> 0, err |-> "nil"]
       ELSE IF beginFails THEN [st |-> st, count |-> 0, err |-> "db"]
       ELSE LET r == InsertUrls(toAdd, 1, failing,
                                [st |-> st, count |-> 0, failed |-> FALSE])
            \* dbErr is only assigned when it is already non-nil: it stays nil
            IN [st |-> r.st, count |-> r.count, err |-> "nil"]

\* urlStore.Visit: the result [st, err]
UrlStoreVisit(st, resamp, u, t, execFails) ==
    IF u \notin DOMAIN st.urls THEN [st |-> st, err |-> "nil"]
    ELSE IF execFails THEN [st |-> st, err |-> "db"]
    ELSE LET id  == st.ids[u]
             db2 == [st.db EXCEPT ![id].last_visit = ValidInt64(TimeToUnix(t))]
         IN IF ~resamp
            THEN [st |-> [st EXCEPT !.db = db2, !.urls = FnDel(@, u)], err |-> "nil"]
            ELSE [st |-> [st EXCEPT !.db = db2, !.urls = FnPut(@, u, PtrTime(t))],
                  err |-> "nil"]

\* UniformSampler: any key of the map
UniformSampler(urls) == DOMAIN urls

\* the pw of PairSampler(pw) in the run command
PairWeight == 2000

\* domainCount[h] after the first loop of the sampler: the visited URLs of
\* host h (0 for a host that was only seen unvisited, or never registered)
DomainCount(urls, h) ==
    IF h = "" THEN 0
    ELSE Cardinality({u \in DOMAIN urls : u.host = h /\ urls[u].valid})

\* weights that count every URL of the host, visited or not
PairWeightsAll(pw, urls) ==
    [u \in {v \in DOMAIN urls : ~urls[v].valid} |->
        LET n == Cardinality({v \in DOMAIN urls : v.host = u.host})
        IN <<IF n = 1 THEN pw ELSE 1, n + 1>>]

\* the weights map of the sampler: the weight of an unvisited URL is the
\* fraction <<baseWeight, domainCount + 1>>
PairWeights(pw, urls) ==
    [u \in {v \in DOMAIN urls : ~urls[v].valid} |->
        <<IF DomainCount(urls, u.host) = 1 THEN pw ELSE 1,
          DomainCount(urls, u.host) + 1>>]

\* randomPickWeighted(rd, m): the values it can return; for weights that
\* are not negative the total is 0 when every weight is 0, and otherwise
\* every key can be the one at which r <= 0
RandomPickWeighted(m) ==
    IF \A u \in DOMAIN m : m[u][1] = 0 THEN {NilURL} ELSE DOMAIN m

\* PairSampler(PairWeight)(urls): the values it can return
PairSampler(urls) == RandomPickWeighted(PairWeights(PairWeight, urls))

SamplerPick(smp, urls) ==
    IF smp = "uni" THEN UniformSampler(urls) ELSE PairSampler(urls)

\* urlStore.Sample with the sampler returning u (NilURL for a nil sample)
UrlStoreSample(st, resamp, u) ==
    IF DOMAIN st.urls = {} THEN [st |-> st, u |-> NilURL, err |-> "StoreIsEmpty"]
    ELSE IF u = NilURL THEN [st |-> st, u |-> NilURL, err |-> "sample is nil"]
    ELSE IF ~resamp THEN [st |-> [st EXCEPT !.urls = FnDel(@, u)], u |-> u, err |-> "nil"]
    ELSE [st |-> st, u |-> u, err |-> "nil"]

\* the values the sampler can return on the map
SampleChoices(smp, urls) ==
    IF DOMAIN urls = {} THEN {NilURL}
    ELSE IF SamplerPick(smp, urls) = {} THEN {NilURL} ELSE SamplerPick(smp, urls)

(***************************************************************************)
(* Values handed to the database                                           *)
(*   a string is the sequence of its characters (tokens), so that the      *)
(*   formatting of a cache key can be computed                             *)
(***************************************************************************)
S(x) == <<x>>

\* an argument of IDStore.Get: a string, an integer or a pointer to a string
SItem(s)    == [k |-> "s", v |-> s, a |-> 0]
IItem(n)    == [k |-> "i", v |-> n, a |-> 0]
PItem(s, a) == [k |-> "p", v |-> s, a |-> a]

\* NULL in an integer column, and an optional string (*string)
Null == -1
NilStr == [nil |-> TRUE, v |-> <<>>]
Some(s) == [nil |-> FALSE, v |-> s]

\* v, evaluated once, handed to F
Bind(v, F(_)) == CHOOSE y \in {F(x) : x \in {v}} : TRUE

\* fmt.Sprintf("%v", item)
FmtItem(it) ==
    IF it.k = "i" THEN <<ToString(it.v)>>
    ELSE IF it.k = "p" THEN <<"0x" \o ToString(it.a)>>
    ELSE it.v

RECURSIVE FmtJoin(_)
FmtJoin(items) ==
    IF items = <<>> THEN <<>>
    ELSE IF Len(items) = 1 THEN FmtItem(items[1])
    ELSE FmtItem(items[1]) \o <<" ">> \o FmtJoin(Tail(items))

\* fmt.Sprintf("%v", items) for items []interface{}
FmtKey(items) == <<"[">> \o FmtJoin(items) \o <<"]">>

\* the tuple the driver binds to the statement
Tuple(items) == [i \in 1..Len(items) |-> items[i].v]

(***************************************************************************)
(* The IDStores: their dimension table and whether they have a TTL cache   *)
(***************************************************************************)
IDSTORES ==
    [dimResolution       |-> [table |-> "dim_resolutions",       cached |-> TRUE],
     dimMessages         |-> [table |-> "dim_console_messages",  cached |-> TRUE],
     dimJavaScriptOrigin |-> [table |-> "dim_javascript_origin", cached |-> FALSE],
     dimMethod           |-> [table |-> "dim_methods",           cached |-> TRUE],
     dimProto            |-> [table |-> "dim_protocols",         cached |-> TRUE],
     dimHosts            |-> [table |-> "dim_hosts",             cached |-> TRUE],
     dimInitiators       |-> [table |-> "dim_initiators",        cached |-> TRUE],
     dimErrors           |-> [table |-> "dim_errors",            cached |-> FALSE],
     dimScheme           |-> [table |-> "dim_url_schemes",       cached |-> TRUE],
     dimHost             |-> [table |-> "dim_url_hosts",         cached |-> TRUE],
     dimPath             |-> [table |-> "dim_url_paths",         cached |-> FALSE],
     dimHeaderKey        |-> [table |-> "dim_header_keys",       cached |-> TRUE],
     dimHeaderKeyValue   |-> [table |-> "dim_header_keyvalues",  cached |-> TRUE],
     dimProtocol         |-> [table |-> "dim_protocols",         cached |-> TRUE],
     dimIssuer           |-> [table |-> "dim_issuers",           cached |-> TRUE],
     dimKeyExchange      |-> [table |-> "dim_key_exchanges",     cached |-> TRUE],
     dimCipher           |-> [table |-> "dim_ciphers",           cached |-> TRUE],
     dimSanList          |-> [table |-> "dim_san_lists",         cached |-> FALSE],
     dimMime             |-> [table |-> "dim_mime_types",        cached |-> TRUE]]

IdStoreNames == DOMAIN IDSTORES
DimTables  == {IDSTORES[s].table : s \in IdStoreNames}
FactTables == {"fact_sessions", "fact_actions", "fact_urls", "fact_post_data",
               "fact_initiator_stack", "fact_request_headers",
               "fact_response_headers", "fact_security_details",
               "fact_console_output", "fact_screenshots", "fact_bodies"}

(***************************************************************************)
(* A transaction: the tables as the transaction sees them, the caches, the *)
(* number of statements run, the statement that fails (0: none), the error *)
(* and the value returned by the last call; files and known are the        *)
(* FileStore of the bodies as the call has left it (they are not part of   *)
(* the transaction: a rollback does not undo them)                         *)
(***************************************************************************)
TxBegin(dims, facts, cache, failOp) ==
    [dims |-> dims, facts |-> facts, cache |-> cache,
     ops |-> 0, failOp |-> failOp, err |-> "nil", ret |-> 0,
     files |-> fsFiles, known |-> fsKnown]

\* one statement on the connection; it returns an error when it is the
\* failing one
TxOp(tx) ==
    IF tx.err # "nil" THEN tx
    ELSE IF tx.ops + 1 = tx.failOp
         THEN [tx EXCEPT !.ops = @ + 1, !.err = "db", !.ret = 0]
         ELSE [tx EXCEPT !.ops = @ + 1]

\* inserter.Insert: Prepare, Exec, select last_insert_rowid()
TxInsertDim(tx, table, tuple) ==
    LET o == TxOp(tx)
    IN IF o.err # "nil" THEN o
       ELSE [o EXCEPT !.dims[table] = Append(@, tuple),
                      !.ret = Len(o.dims[table]) + 1]

TxInsertFact(tx, table, row) ==
    LET o == TxOp(tx)
    IN IF o.err # "nil" THEN o
       ELSE [o EXCEPT !.facts[table] = Append(@, row),
                      !.ret = Len(o.facts[table]) + 1]

\* SELECT id FROM table WHERE ... LIMIT 1 (0 when there is no row)
SelectId(rows, tuple) ==
    IF \E i \in 1..Len(rows) : rows[i] = tuple
    THEN CHOOSE i \in 1..Len(rows) :
            rows[i] = tuple /\ \A j \in 1..(i - 1) : rows[j] # tuple
    ELSE 0

\* cache.Set(key, &id, DefaultExpiration)
CacheSet(c, key, id) == {e \in c : e.key # key} \cup {[key |-> key, id |-> id]}

\* foundId in IDStore.Get
FoundId(tx, s, key, id) ==
    IF IDSTORES[s].cached
    THEN [tx EXCEPT !.cache[s] = CacheSet(@, key, id), !.ret = id]
    ELSE [tx EXCEPT !.ret = id]

\* IDStore.Get(tx, items...)
IdStoreGet(tx, s, items) ==
    LET key   == FmtKey(items)
        table == IDSTORES[s].table
        hit   == {e \in tx.cache[s] : e.key = key}
    IN IF tx.err # "nil" THEN tx
       ELSE IF IDSTORES[s].cached /\ hit # {}
       THEN [tx EXCEPT !.ret = (CHOOSE e \in hit : TRUE).id]
       ELSE Bind(TxOp(tx), LAMBDA q :
            IF q.err # "nil" THEN q
            ELSE Bind(SelectId(q.dims[table], Tuple(items)), LAMBDA id :
                 IF id > 0 THEN FoundId(q, s, key, id)
                 ELSE Bind(TxInsertDim(q, table, Tuple(items)), LAMBDA ins :
                      IF ins.err # "nil" THEN ins
                      ELSE FoundId(ins, s, key, ins.ret))))

(***************************************************************************)
(* store.FileStore                                                         *)
(*   a []byte is the sequence of its bytes, a mime type the pair of its    *)
(*   top-level type (with the slash) and the rest                          *)
(***************************************************************************)
PngSignature == <<"0x89", "P", "N", "G", "0x0D", "0x0A", "0x1A", "0x0A">>

\* the payloads handed to Store
PAYLOADS == {<<>>, <<"<", "b", ">">>, PngSignature}

\* http.DetectContentType(raw)
DetectContentType(raw) ==
    IF raw = PngSignature THEN <<"image/", "png">>
    ELSE IF Len(raw) >= 3 /\ SubSeq(raw, 1, 3) = <<"<", "b", ">">>
    THEN <<"text/", "html; charset=utf-8">>
    ELSE <<"text/", "plain; charset=utf-8">>

\* fs.mimeAllowed(mimeType), the validators being MimeIsText and MimeAny
mimeAllowed(allowed, mime) ==
    \E i \in 1..Len(allowed) :
        IF allowed[i] = "MimeIsText" THEN mime[1] = "text/" ELSE TRUE

\* Sha256Hasher.Sum(raw): the digest, one per payload
Sha256Sum(raw) == <<"sha256:">> \o raw

\* exts[0] of mime.ExtensionsByType(mimeType) with the built-in table, or
\* nothing when the type has no extension
FirstExtension(mime) ==
    IF mime = <<"image/", "png">> THEN <<".png">>
    ELSE IF mime[2] = "html; charset=utf-8" THEN <<".htm">>
    ELSE <<>>

\* the ten bytes gzip.Writer puts in front of the compressed data
GzipHeader ==
    <<"0x1f", "0x8b", "0x08", "0x00", "0x00", "0x00", "0x00", "0x00", "0x02", "0xff">>

\* the bytes that have reached the file when w.Write(raw) returns: the
\* writer of NoCompression is the file itself; a gzip.Writer writes its
\* header on the first Write and hands the data to the compressor, which
\* keeps a payload of this size until a Flush or a Close
CompWrite(comp, raw) == IF comp = "gzip" THEN GzipHeader ELSE raw

\* a complete gzip stream of raw: header, deflate blocks, CRC-32 and size
GzipStream(raw) == GzipHeader \o <<"deflate">> \o raw \o <<"crc32", "isize">>

\* ioutil.ReadAll(gzip.NewReader(file))
Gunzip(bytes) ==
    IF \E raw \in PAYLOADS : bytes = GzipStream(raw)
    THEN [err |-> "nil", raw |-> CHOOSE raw \in PAYLOADS : bytes = GzipStream(raw)]
    ELSE [err |-> "unexpected EOF", raw |-> <<>>]

\* reading a stored file back through the configured compressor
ReadBack(comp, bytes) ==
    IF comp = "gzip" THEN Gunzip(bytes) ELSE [err |-> "nil", raw |-> bytes]

\* filepath.Join(fs.rootDir, filename), the filename being the hash, the
\* extension of the mime type and fs.comp.Ext()
FilePath(comp, hash, mime) ==
    <<"root", "/">> \o hash \o FirstExtension(mime)
        \o (IF comp = "gzip" THEN <<".gz">> ELSE <<>>)

\* the call of the file system that returns an error ("none": no call)
IOFails == {"none", "create", "write", "stat"}

\* Store without the lookup in fs.known
FileStoreStoreNoKnown(files, known, comp, allowed, raw, fail) ==
    LET hash    == Sha256Sum(raw)
        mime    == DetectContentType(raw)
        storedf == [hashType |-> "sha256", hash |-> hash, path |-> <<>>,
                    orgSize |-> Len(raw), compSize |-> 0, mimeType |-> mime]
        path    == FilePath(comp, hash, mime)
        onDisk  == CompWrite(comp, raw)
        withP   == [storedf EXCEPT !.path = path]
        done    == [withP EXCEPT !.compSize = Len(onDisk)]
    IN IF ~mimeAllowed(allowed, mime)
       THEN [files |-> files, known |-> known, sf |-> storedf,
             err |-> "NotAllowedMime", created |-> FALSE]
       ELSE IF fail = "create"
       THEN [files |-> files, known |-> known, sf |-> storedf,
             err |-> "io", created |-> FALSE]
       ELSE IF fail = "write"
       THEN [files |-> FnPut(files, path, <<>>), known |-> known, sf |-> withP,
             err |-> "io", created |-> TRUE]
       ELSE IF fail = "stat"
       THEN [files |-> FnPut(files, path, onDisk), known |-> known, sf |-> withP,
             err |-> "io", created |-> TRUE]
       ELSE [files |-> FnPut(files, path, onDisk), known |-> FnPut(known, hash, done),
             sf |-> done, err |-> "nil", created |-> TRUE]

\* FileStore.Store(raw): the result [files, known, sf, err, created]
\*   created: os.Create was called and returned a file
FileStoreStore(files, known, comp, allowed, raw, fail) ==
    LET hash    == Sha256Sum(raw)
        mime    == DetectContentType(raw)
        storedf == [hashType |-> "sha256", hash |-> hash, path |-> <<>>,
                    orgSize |-> Len(raw), compSize |-> 0, mimeType |-> mime]
        path    == FilePath(comp, hash, mime)
        onDisk  == CompWrite(comp, raw)
        withP   == [storedf EXCEPT !.path = path]
        done    == [withP EXCEPT !.compSize = Len(onDisk)]
    IN IF ~mimeAllowed(allowed, mime)
       THEN [files |-> files, known |-> known, sf |-> storedf,
             err |-> "NotAllowedMime", created |-> FALSE]
       ELSE IF hash \in DOMAIN known
       THEN [files |-> files, known |-> known, sf |-> known[hash],
             err |-> "nil", created |-> FALSE]
       ELSE IF fail = "create"
       THEN [files |-> files, known |-> known, sf |-> storedf,
             err |-> "io", created |-> FALSE]
       ELSE IF fail = "write"
       THEN [files |-> FnPut(files, path, <<>>), known |-> known, sf |-> withP,
             err |-> "io", created |-> TRUE]
       ELSE IF fail = "stat"
       THEN [files |-> FnPut(files, path, onDisk), known |-> known, sf |-> withP,
             err |-> "io", created |-> TRUE]
       ELSE [files |-> FnPut(files, path, onDisk), known |-> FnPut(known, hash, done),
             sf |-> done, err |-> "nil", created |-> TRUE]

\* BodyStore.Save that returns every error of fs.Store
BodyStoreSaveStrict(tx, st, id, mime) ==
    IF st.err # "nil"
    THEN [tx EXCEPT !.err = st.err]
    ELSE Bind(IdStoreGet(tx, "dimMime", <<SItem(mime)>>), LAMBDA bm :
         Bind(IdStoreGet(bm, "dimMime", <<SItem(st.sf.mimeType)>>), LAMBDA dm :
         TxInsertFact(dm, "fact_bodies",
                [action_id          |-> id,
                 browser_mime_id    |-> bm.ret,
                 determined_mime_id |-> dm.ret,
                 path               |-> IF st.sf.path = <<>> THEN NilStr
                                        ELSE Some(st.sf.path),
                 hash256            |-> st.sf.hash,
                 org_size           |-> st.sf.orgSize,
                 comp_size          |-> IF st.sf.compSize = 0 THEN Null
                                        ELSE st.sf.compSize])))

\* BodyStore.Save(tx, id, body, mime); st is what ss.fs.Store(body.Body)
\* returned
BodyStoreSave(tx, st, id, mime) ==
    IF st.err # "nil" /\ st.err # "NotAllowedMime"
    THEN [tx EXCEPT !.err = st.err]
    ELSE Bind(IdStoreGet(tx, "dimMime", <<SItem(mime)>>), LAMBDA bm :
         Bind(IdStoreGet(bm, "dimMime", <<SItem(st.sf.mimeType)>>), LAMBDA dm :
         TxInsertFact(dm, "fact_bodies",
                [action_id          |-> id,
                 browser_mime_id    |-> bm.ret,
                 determined_mime_id |-> dm.ret,
                 path               |-> IF st.sf.path = <<>> THEN NilStr
                                        ELSE Some(st.sf.path),
                 hash256            |-> st.sf.hash,
                 org_size           |-> st.sf.orgSize,
                 comp_size          |-> IF st.sf.compSize = 0 THEN Null
                                        ELSE st.sf.compSize])))

(***************************************************************************)
(* Hosts                                                                   *)
(***************************************************************************)
\* publicsuffix.EffectiveTLDPlusOne(host): [err, v]
EffectiveTLDPlusOne(h) ==
    IF h \in {"localhost", ""} THEN [err |-> TRUE, v |-> ""]
    ELSE IF h = "10.0.0.1" THEN [err |-> FALSE, v |-> "0.1"]
    ELSE IF h = "www.a.com" THEN [err |-> FALSE, v |-> "a.com"]
    ELSE [err |-> FALSE, v |-> h]

\* net.ParseIP(host) != nil
IsIP(h) == h = "10.0.0.1"

\* t.UnixNano(), kept as the pair (seconds, nanoseconds)
UnixNano(t) == <<t.sec, t.nsec>>

\* the zero time.Time of a field that was never set
ZeroTime == [sec |-> -1, nsec |-> 0]

(***************************************************************************)
(* Sub-stores                                                              *)
(***************************************************************************)
\* a SessionStore.Save that counts the actions that have a response
SessionStoreSaveResponses(tx, page) ==
    Bind(IdStoreGet(tx, "dimResolution", <<SItem(page.resolution)>>), LAMBDA g :
    TxInsertFact(g, "fact_sessions",
           [resolution_id     |-> g.ret,
            navigated_time    |-> UnixNano(page.navigated),
            loaded_time       |-> UnixNano(page.loaded),
            terminated_time   |-> UnixNano(page.terminated),
            amount_of_actions |-> Cardinality({i \in 1..Len(page.actions) :
                                                  ~page.actions[i].resp.nil}),
            error             |-> page.err]))

\* SessionStore.Save
SessionStoreSave(tx, page) ==
    Bind(IdStoreGet(tx, "dimResolution", <<SItem(page.resolution)>>), LAMBDA g :
    TxInsertFact(g, "fact_sessions",
           [resolution_id     |-> g.ret,
            navigated_time    |-> UnixNano(page.navigated),
            loaded_time       |-> UnixNano(page.loaded),
            terminated_time   |-> UnixNano(page.terminated),
            amount_of_actions |-> Len(page.actions),
            error             |-> page.err]))

\* UrlStore.Save (the fact_urls writer)
FactUrlSave(tx, id, u) ==
    Bind(IdStoreGet(tx, "dimScheme", <<SItem(S(u.scheme))>>), LAMBDA sc :
    Bind(IdStoreGet(sc, "dimHost", <<SItem(S(u.host))>>), LAMBDA ho :
    Bind(IdStoreGet(ho, "dimPath", <<SItem(S(u.path))>>), LAMBDA pa :
    TxInsertFact(pa, "fact_urls",
           [action_id |-> id, scheme_id |-> sc.ret, user_id |-> Null,
            host_id |-> ho.ret, path_id |-> pa.ret, fragment_id |-> Null,
            raw_query_id |-> Null, url |-> UrlString(u)]))))

\* HeaderStore.saveHeader
SaveHeader(tx, id, key, value, table) ==
    Bind(IdStoreGet(tx, "dimHeaderKey", <<SItem(key)>>), LAMBDA k :
    Bind(IdStoreGet(k, "dimHeaderKeyValue", <<IItem(k.ret), SItem(value)>>), LAMBDA kv :
    TxInsertFact(kv, table, [action_id |-> id, header_keyvalue_id |-> kv.ret])))

RECURSIVE SaveHeaders(_, _, _, _)
SaveHeaders(tx, id, headers, table) ==
    IF headers = <<>> \/ tx.err # "nil" THEN tx
    ELSE Bind(SaveHeader(tx, id, Head(headers)[1], Head(headers)[2], table), LAMBDA h :
         SaveHeaders(h, id, Tail(headers), table))

\* SecurityStore.Save
SecurityStoreSave(tx, id, sd) ==
    Bind(IdStoreGet(tx, "dimProtocol", <<SItem(sd.protocol)>>), LAMBDA pr :
    Bind(IdStoreGet(pr, "dimKeyExchange", <<SItem(sd.keyExchange)>>), LAMBDA ke :
    Bind(IdStoreGet(ke, "dimCipher", <<SItem(sd.cipher)>>), LAMBDA ci :
    Bind(IdStoreGet(ci, "dimIssuer", <<SItem(sd.issuer)>>), LAMBDA is :
    Bind(IdStoreGet(is, "dimSanList", <<SItem(sd.sanList)>>), LAMBDA sl :
    TxInsertFact(sl, "fact_security_details",
           [action_id |-> id, protocol_id |-> pr.ret, key_exchange_id |-> ke.ret,
            cipher_id |-> ci.ret, issuer_id |-> is.ret, san_list_id |-> sl.ret,
            subject_name |-> sd.subjectName, valid_from |-> sd.validFrom,
            valid_to |-> sd.validTo]))))))

\* sort.Strings on name servers, by their rank in NsOrder
NsOrder == <<"ns1", "ns2">>
NsRank(n) == CHOOSE i \in 1..Len(NsOrder) : NsOrder[i] = n

\* the name servers left in the order of the DNS answer
SortStringsNone(ns) == ns

RECURSIVE SortStrings(_)
SortStrings(ns) ==
    IF ns = <<>> THEN <<>>
    ELSE LET m == CHOOSE i \in 1..Len(ns) :
                     \A j \in 1..Len(ns) :
                        NsRank(ns[i]) < NsRank(ns[j]) \/ (NsRank(ns[i]) = NsRank(ns[j]) /\ i <= j)
         IN <<ns[m]>> \o SortStrings(SubSeq(ns, 1, m - 1) \o SubSeq(ns, m + 1, Len(ns)))

\* strings.Join(ns, ",")
RECURSIVE JoinComma(_)
JoinComma(ns) ==
    IF ns = <<>> THEN <<>>
    ELSE IF Len(ns) = 1 THEN <<ns[1]>>
    ELSE <<ns[1], ",">> \o JoinComma(Tail(ns))

\* the host_id producer of ActionStore.Save
ActionHostId(tx, a) ==
    LET dom  == a.host.domain
        root == EffectiveTLDPlusOne(dom)
    IN IF IsIP(dom) \/ root.err THEN [tx EXCEPT !.ret = Null]
       ELSE IdStoreGet(tx, "dimHosts",
                <<SItem(S(root.v)), SItem(S(PublicSuffix(root.v))),
                  SItem(S(a.host.ip)), SItem(JoinComma(SortStrings(a.host.nameServers)))>>)

\* as.bodyStore.Save(tx, id, *a.Body, resp.MimeType) with the FileStore of
\* the transaction; creating the file is a step that can fail
ActionBodySave(tx, id, raw, mime) ==
    Bind(FileStoreStore(tx.files, tx.known, fsComp, fsAllowedMime, raw, "none"), LAMBDA st0 :
    Bind(IF st0.created THEN TxOp(tx) ELSE tx, LAMBDA io :
    Bind(IF io.err # "nil"
         THEN FileStoreStore(tx.files, tx.known, fsComp, fsAllowedMime, raw, "create")
         ELSE st0, LAMBDA st :
    BodyStoreSave([io EXCEPT !.files = st.files, !.known = st.known], st, id, mime))))

\* a map from which no id is ever read back
AcidsGetNone(acids, parent) == 0

\* acids[a.Parent]: the zero value when the parent has no entry
AcidsGet(acids, parent) == IF parent \in DOMAIN acids THEN acids[parent] ELSE 0

\* ActionStore.Save, from action i on; acids maps stored actions to row ids
RECURSIVE ActionStoreSaveFrom(_, _, _, _, _)
ActionStoreSaveFrom(tx, sid, actions, i, acids) ==
    IF tx.err # "nil" \/ i > Len(actions) THEN tx
    ELSE LET a == actions[i] IN
         Bind(IdStoreGet(tx, "dimMethod", <<SItem(a.method)>>), LAMBDA me :
         Bind(IF a.resp.nil \/ a.resp.protocol.nil
              THEN [me EXCEPT !.ret = Null]
              ELSE IdStoreGet(me, "dimProto",
                              <<PItem(a.resp.protocol.v, a.resp.protocol.a)>>), LAMBDA pr :
         Bind(ActionHostId(pr, a), LAMBDA ho :
         Bind(IdStoreGet(ho, "dimInitiators", <<SItem(a.kind)>>), LAMBDA in :
         Bind(IF a.err.nil
              THEN [in EXCEPT !.ret = Null]
              ELSE IdStoreGet(in, "dimErrors", <<PItem(a.err.v, a.err.a)>>), LAMBDA er :
         Bind(TxInsertFact(er, "fact_actions",
                 [parent_id    |-> IF a.parent # 0 THEN AcidsGet(acids, a.parent) ELSE Null,
                  session_id   |-> sid,
                  method_id    |-> me.ret,
                  protocol_id  |-> pr.ret,
                  host_id      |-> ho.ret,
                  initiator_id |-> in.ret,
                  status_code  |-> IF a.resp.nil THEN Null ELSE a.resp.status,
                  error_id     |-> er.ret]), LAMBDA fa :
         Bind(IF a.postData.nil THEN fa
              ELSE TxInsertFact(fa, "fact_post_data",
                                [action_id |-> fa.ret, data |-> a.postData.v]), LAMBDA pd :
         Bind(IF a.stack.nil THEN pd
              ELSE TxInsertFact(pd, "fact_initiator_stack",
                                [action_id |-> fa.ret, col |-> a.stack.col,
                                 line |-> a.stack.line, func |-> a.stack.func]), LAMBDA st :
         Bind(FactUrlSave(st, fa.ret, a.url), LAMBDA us :
         Bind(SaveHeaders(us, fa.ret, a.reqHeaders, "fact_request_headers"), LAMBDA rq :
         Bind(IF a.resp.nil THEN rq
              ELSE SaveHeaders(rq, fa.ret, a.resp.headers, "fact_response_headers"), LAMBDA rs :
         Bind(IF a.resp.nil \/ a.resp.security.nil THEN rs
              ELSE SecurityStoreSave(rs, fa.ret, a.resp.security), LAMBDA se :
         Bind(IF a.resp.nil \/ a.body.nil THEN se
              ELSE ActionBodySave(se, fa.ret, a.body.raw, a.resp.mime), LAMBDA bo :
         Bind(FnPut(acids, i, fa.ret), LAMBDA ac :
         ActionStoreSaveFrom(bo, sid, actions, i + 1, ac)))))))))))))))

ActionStoreSave(tx, sid, actions) == ActionStoreSaveFrom(tx, sid, actions, 1, EmptyFn)

\* a ConsoleStore.Save that numbers the messages from 0
RECURSIVE ConsoleStoreSaveFromZero(_, _, _, _)
ConsoleStoreSaveFromZero(tx, sid, console, i) ==
    IF tx.err # "nil" \/ i > Len(console) THEN tx
    ELSE LET c == console[i] IN
         Bind(IdStoreGet(tx, "dimJavaScriptOrigin",
                         <<SItem(c.func), IItem(c.column), IItem(c.line)>>), LAMBDA jid :
         Bind(IdStoreGet(jid, "dimMessages", <<SItem(c.msg)>>), LAMBDA mid :
         Bind(TxInsertFact(mid, "fact_console_output",
                  [session_id |-> sid, seq |-> i - 1,
                   javascript_origin_id |-> jid.ret, msg_id |-> mid.ret]), LAMBDA ins :
         ConsoleStoreSaveFromZero(ins, sid, console, i + 1))))

\* ConsoleStore.Save, from message i on
RECURSIVE ConsoleStoreSaveFrom(_, _, _, _)
ConsoleStoreSaveFrom(tx, sid, console, i) ==
    IF tx.err # "nil" \/ i > Len(console) THEN tx
    ELSE LET c == console[i] IN
         Bind(IdStoreGet(tx, "dimJavaScriptOrigin",
                         <<SItem(c.func), IItem(c.column), IItem(c.line)>>), LAMBDA jid :
         Bind(IdStoreGet(jid, "dimMessages", <<SItem(c.msg)>>), LAMBDA mid :
         Bind(TxInsertFact(mid, "fact_console_output",
                  [session_id |-> sid, seq |-> i,
                   javascript_origin_id |-> jid.ret, msg_id |-> mid.ret]), LAMBDA ins :
         ConsoleStoreSaveFrom(ins, sid, console, i + 1))))

ConsoleStoreSave(tx, sid, console) == ConsoleStoreSaveFrom(tx, sid, console, 1)

\* ScreenshotStore.Store: the path of the file written
ScreenshotPath(sc, domain) ==
    domain \o "/" \o sc.rand \o "-" \o sc.resolution \o "." \o sc.kind

\* ScreenStore.Save; writing the file is a step that can fail
RECURSIVE ScreenStoreSave(_, _, _, _)
ScreenStoreSave(tx, sid, dom, screenshots) ==
    IF tx.err # "nil" \/ screenshots = <<>> THEN tx
    ELSE LET sc == Head(screenshots) IN
         Bind(TxOp(tx), LAMBDA wr :
         Bind(TxInsertFact(wr, "fact_screenshots",
                  [session_id |-> sid, time_taken |-> UnixNano(sc.taken),
                   path |-> ScreenshotPath(sc, dom)]), LAMBDA ins :
         ScreenStoreSave(ins, sid, dom, Tail(screenshots))))

(***************************************************************************)
(* Store.SaveSession: the result [dims, facts, cache, err, marks,          *)
(*   committed]                                                            *)
(*   failOp: which statement of the call returns an error (0: none)        *)
(*   committed: tx.Commit() ran and returned nil                           *)
(*   marks: the number of statements run when each step returned           *)
(***************************************************************************)
SaveSession(dims, facts, cache, page, failOp) ==
    Bind(TxOp(TxBegin(dims, facts, cache, failOp)), LAMBDA bg :
    Bind(SessionStoreSave(bg, page), LAMBDA ss :
    Bind(ActionStoreSave(ss, ss.ret, page.actions), LAMBDA as :
    Bind(ConsoleStoreSave(as, ss.ret, page.console), LAMBDA cs :
    Bind(EffectiveTLDPlusOne(page.initialURL.host), LAMBDA dom :
    Bind(IF cs.err = "nil" /\ dom.err
         THEN [cs EXCEPT !.err = "publicsuffix"] ELSE cs, LAMBDA dm :
    Bind(ScreenStoreSave(dm, ss.ret, dom.v, page.screenshots), LAMBDA sc :
    Bind(TxOp(sc), LAMBDA cm :
    LET marks == {bg.ops, ss.ops, as.ops, cs.ops, sc.ops, cm.ops}
    IN IF sc.err # "nil"
       \* tx.Rollback(); return err
       THEN [dims |-> dims, facts |-> facts, cache |-> sc.cache,
             err |-> sc.err, marks |-> marks, committed |-> FALSE,
             files |-> sc.files, known |-> sc.known]
       \* tx.Commit(), whose error is not looked at; return nil
       ELSE IF cm.err # "nil"
       THEN [dims |-> dims, facts |-> facts, cache |-> cm.cache,
             err |-> "nil", marks |-> marks, committed |-> FALSE,
             files |-> cm.files, known |-> cm.known]
       ELSE [dims |-> cm.dims, facts |-> cm.facts, cache |-> cm.cache,
             err |-> "nil", marks |-> marks, committed |-> TRUE,
             files |-> cm.files, known |-> cm.known]))))))))

\* the statements whose failure is explored: for each step of SaveSession
\* (Begin, session, actions, console, screenshots, Commit) its last statement
FailPoints(dims, facts, cache, page) ==
    {0} \cup SaveSession(dims, facts, cache, page, 0).marks

(***************************************************************************)
(* Pages                                                                   *)
(***************************************************************************)
NilPtr     == [nil |-> TRUE, v |-> <<>>, a |-> 0]
Ptr(s, a)  == [nil |-> FALSE, v |-> s, a |-> a]
NilStack   == [nil |-> TRUE, col |-> 0, line |-> 0, func |-> <<>>]
NilSec     == [nil |-> TRUE, protocol |-> <<>>, keyExchange |-> <<>>, cipher |-> <<>>,
               issuer |-> <<>>, sanList |-> <<>>, subjectName |-> <<>>,
               validFrom |-> 0, validTo |-> 0]
NilResp    == [nil |-> TRUE, status |-> 0, protocol |-> NilPtr, headers |-> <<>>,
               security |-> NilSec, mime |-> <<>>]
NilBody    == [nil |-> TRUE, raw |-> <<>>]
Body(raw)  == [nil |-> FALSE, raw |-> raw]
HostOf(u)  == [domain |-> u.host, ip |-> "1.2.3.4", nameServers |-> <<"ns2", "ns1">>]

Response(status, addr) ==
    [nil |-> FALSE, status |-> status, protocol |-> Ptr(S("http/1.1"), addr),
     headers |-> << <<S("Server"), S("x")>> >>, security |-> NilSec,
     mime |-> <<"text/", "html">>]

TlsDetails ==
    [nil |-> FALSE, protocol |-> S("TLS 1.2"), keyExchange |-> S("ECDHE_RSA"),
     cipher |-> S("AES_128_GCM"), issuer |-> S("CA"), sanList |-> S("a.com"),
     subjectName |-> S("a.com"), validFrom |-> 1, validTo |-> 2]

Action(u, parent, kind, resp, err) ==
    [method |-> S("GET"), url |-> u, parent |-> parent, kind |-> S(kind),
     stack |-> NilStack, err |-> err, resp |-> resp, postData |-> NilStr,
     reqHeaders |-> << <<S("Accept"), S("*")>> >>, host |-> HostOf(u),
     body |-> NilBody]

T0 == [sec |-> 0, nsec |-> 7]
T1 == [sec |-> 1, nsec |-> 0]

BasePage(u) ==
    [initialURL |-> u, resolution |-> S("1366x768"), actions |-> <<>>,
     console |-> <<>>, screenshots |-> <<>>, documentURLs |-> <<>>,
     initiated |-> T0, navigated |-> ZeroTime, loaded |-> ZeroTime,
     terminated |-> ZeroTime, err |-> NilStr]

Screenshot == [taken |-> T1, kind |-> "png", resolution |-> "1366x768", rand |-> "r"]

\* the anchors of the documents: the token of an a element and its href
AnchorHref ==
    [t \in {"<a href=/x>", "<a href=http://b.dk>", "<a href=#top>"} |->
        IF t = "<a href=/x>" THEN "/x"
        ELSE IF t = "<a href=http://b.dk>" THEN "http://b.dk" ELSE "#top"]

\* a document with one relative link
HtmlDoc == <<"<", "b", ">", "<a href=/x>">>

\* mimeIsHTML(mime)
mimeIsHTML(mime) == mime[1] = "text/" /\ mime[2] \in {"html", "html; charset=utf-8"}

\* the matcher of RetrieveLinks: ^/[a-zA-Z]+, ^http://, ^https://
HrefMatches(href) == href \in {"/x", "http://b.dk"}

\* url.Parse(href), and the host and scheme of the document for a link
\* without a host
ResolveLink(host, href) ==
    IF href = "/x" THEN [scheme |-> host.scheme, host |-> host.host, path |-> "/x"]
    ELSE [scheme |-> "http", host |-> "b.dk", path |-> ""]

\* RetrieveLinks(host, body): the lists it can return, the order being that
\* of a map iteration
RetrieveLinks(host, body) ==
    LET hrefs == IF mimeIsHTML(DetectContentType(body))
                 THEN {AnchorHref[body[i]] : i \in {j \in 1..Len(body) :
                                                       body[j] \in DOMAIN AnchorHref}}
                 ELSE {}
        links == {ResolveLink(host, h) :
                     h \in {g \in hrefs : HrefMatches(g) /\ ~(g = "/x" /\ host.host = "")}}
    IN {l \in [1..Cardinality(links) -> links] :
           \A i, j \in 1..Cardinality(links) : l[i] = l[j] => i = j}

\* LinksFromBodies(host, bodies...): the loop over the bodies is commented
\* out, the result is the nil slice
LinksFromBodies(host, bodies) == <<>>

\* the end of Worker.fetch that leaves the error of the first action out
FetchResultNoError(page) ==
    IF page.actions = <<>> THEN page
    ELSE [page EXCEPT
            !.documentURLs = IF page.actions[1].body.nil THEN @
                             ELSE LinksFromBodies(page.initialURL,
                                                  <<page.actions[1].body>>)]

\* the end of Worker.fetch, the actions being in the page: the error of
\* the first action becomes the error of the Page, and the links of its
\* body the DocumentURLs
FetchResult(page) ==
    IF page.actions = <<>> THEN page
    ELSE [page EXCEPT
            !.err = IF page.actions[1].err.nil THEN @
                    ELSE Some(page.actions[1].err.v),
            !.documentURLs = IF page.actions[1].body.nil THEN @
                             ELSE LinksFromBodies(page.initialURL,
                                                  <<page.actions[1].body>>)]

\* a page with one action that got a 200 response
PageOK(u, links) ==
    [BasePage(u) EXCEPT
        !.actions = <<[Action(u, 0, "user", Response(200, 1), NilPtr)
                         EXCEPT !.body = Body(HtmlDoc)]>>,
        !.screenshots = <<Screenshot>>,
        !.documentURLs = links,
        !.navigated = T0, !.loaded = T1, !.terminated = T1]

\* a redirect followed by a TLS response that logs two console messages
PageRedirect(u, links) ==
    [BasePage(u) EXCEPT
        !.actions = <<Action(u, 0, "user", Response(301, 1), NilPtr),
                      [Action(u, 1, "redirect",
                              [Response(200, 2) EXCEPT !.security = TlsDetails], NilPtr)
                         EXCEPT !.postData = Some(S("q=1")),
                                !.host.nameServers = <<"ns1", "ns2">>,
                                !.body = Body(<<"<", "b", ">">>),
                                !.stack = [nil |-> FALSE, col |-> 1, line |-> 2,
                                           func |-> S("f")]]>>,
        !.console = <<[func |-> S("f"), column |-> 1, line |-> 2, msg |-> S("a a")],
                      [func |-> S("f"), column |-> 1, line |-> 2, msg |-> S("b")]>>,
        !.screenshots = <<Screenshot>>,
        !.documentURLs = links,
        !.navigated = T0, !.loaded = T1, !.terminated = T1]

\* the origin refused the connection
PageRefused(u) ==
    FetchResult([BasePage(u) EXCEPT
        !.actions = <<Action(u, 0, "user", NilResp,
                             Ptr(S("net::ERR_CONNECTION_REFUSED"), 1))>>,
        !.screenshots = <<Screenshot>>,
        !.navigated = T0, !.loaded = T1, !.terminated = T1])

\* a document and an image it refers to, served by a bare IP address, that
\* is not found
IpURL == [scheme |-> "http", host |-> "10.0.0.1", path |-> "/img"]

PageParser(u) ==
    [BasePage(u) EXCEPT
        !.actions = <<[Action(u, 0, "user", Response(200, 1), NilPtr)
                         EXCEPT !.body = Body(<<"<", "b", ">">>)],
                      [Action(IpURL, 1, "parser",
                              [Response(404, 2) EXCEPT !.mime = <<"image/", "png">>],
                              NilPtr)
                         EXCEPT !.body = Body(PngSignature)]>>,
        !.screenshots = <<Screenshot>>,
        !.navigated = T0, !.loaded = T1, !.terminated = T1]

\* replyErr(err): nothing but the error
PageError(u, err) == [BasePage(u) EXCEPT !.err = Some(S(err))]

NoPage == BasePage(NilURL)

(***************************************************************************)
(* History                                                                 *)
(***************************************************************************)
NoHist == [op |-> "none"]

EmptyDims  == [t \in DimTables |-> <<>>]
EmptyFacts == [t \in FactTables |-> <<>>]
EmptyCache == [s \in IdStoreNames |-> {}]

(***************************************************************************)
(* Bounds of the persistence specification                                 *)
(***************************************************************************)
MaxSessions == 2    \* committed rows of fact_sessions
MaxGets     == 2    \* successive IDStore.Get calls in one transaction

\* the pages handed to SaveSession
StorePages ==
    LET a  == CHOOSE u \in URLS : u.host = "a.com" /\ u.path = ""
        lh == CHOOSE u \in URLS : u.host = "localhost"
    IN {PageRedirect(a, <<>>), PageError(a, "ErrTimeoutDOM"), PageOK(lh, <<>>)}

\* the pages of the crawl tests: a redirect, an origin that refuses the
\* connection, a document with an image
CrawlPages ==
    LET a == CHOOSE u \in URLS : u.host = "a.com" /\ u.path = ""
    IN {PageRedirect(a, <<>>), PageRefused(a), PageParser(a)}

\* the action of TestActionStore, and an action that has a body while its
\* response event was not captured
PageBasic(u) ==
    [BasePage(u) EXCEPT
        !.actions = <<[Action(u, 0, "script",
                              [Response(200, 1) EXCEPT !.security = TlsDetails], NilPtr)
                         EXCEPT !.postData = Some(S("some_post")),
                                !.reqHeaders = << <<S("User-Agent"), S("Chrome")>>,
                                                  <<S("Date"), S("Today")>> >>,
                                !.body = Body(HtmlDoc),
                                !.stack = [nil |-> FALSE, col |-> 2, line |-> 25,
                                           func |-> S("some_func")]]>>,
        !.navigated = T0, !.loaded = T1, !.terminated = T1]

PageBodyOnly(u) ==
    [BasePage(u) EXCEPT
        !.actions = <<[Action(u, 0, "user", NilResp, NilPtr)
                         EXCEPT !.body = Body(<<"<", "b", ">">>)]>>,
        !.navigated = T0, !.loaded = T1, !.terminated = T1]

ActionPages ==
    LET a == CHOOSE u \in URLS : u.host = "a.com" /\ u.path = ""
    IN {PageBasic(a), PageBodyOnly(a)}

\* the stores and tuples of the direct IDStore.Get calls
GetStores == {"dimMethod", "dimErrors"}
GetTuples == {<<SItem(S("GET"))>>, <<SItem(S("POST"))>>}

(***************************************************************************)
(* SpecStore: the persistence engine driven through its API                *)
(***************************************************************************)
\* Store.SaveSession(page)
SaveSessionOf(pages) ==
    \E page \in pages :
      \E f \in FailPoints(dbDims, dbFacts, idCache, page) :
           \E r \in {SaveSession(dbDims, dbFacts, idCache, page, f)} :
              /\ Len(dbFacts["fact_sessions"]) < MaxSessions
              /\ dbDims' = r.dims
              /\ dbFacts' = r.facts
              /\ idCache' = r.cache
              /\ fsFiles' = r.files
              /\ fsKnown' = r.known
              /\ fsStored' = fsStored \cup
                     {page.actions[i].body.raw : i \in {j \in 1..Len(page.actions) :
                        Sha256Sum(page.actions[j].body.raw)
                            \in DOMAIN r.known \ DOMAIN fsKnown}}
              /\ hist' = [op |-> "SaveSession", page |-> page, err |-> r.err,
                          stepFailed |-> ~r.committed,
                          dbChanged |-> (r.dims # dbDims \/ r.facts # dbFacts),
                          newRows |-> [t \in FactTables |->
                                         Len(r.facts[t]) - Len(dbFacts[t])]]
              /\ UNCHANGED <<usVars, usConf, fsComp, fsAllowedMime, smVars, rdVars, ctlVars>>

StoreSaveSession == SaveSessionOf(StorePages)

\* Store.SaveSession(page) for the pages of the crawl tests
StoreSaveCrawl == SaveSessionOf(CrawlPages)

\* Store.SaveSession(page) for the pages of the action store
StoreSaveActions == SaveSessionOf(ActionPages)

\* n successive IDStore.Get(tx, t) in one transaction
RECURSIVE GetTimes(_, _, _, _, _)
GetTimes(tx, s, items, n, ids) ==
    IF n = 0 THEN [tx |-> tx, ids |-> ids]
    ELSE Bind(IdStoreGet(tx, s, items), LAMBDA g :
         GetTimes(g, s, items, n - 1, Append(ids, g.ret)))

CountRows(rows, tuple) == Cardinality({i \in 1..Len(rows) : rows[i] = tuple})

\* begin a transaction, call Get n times, then commit or roll back
IdGetOf(stores, tuples, commits, fails) ==
    \E s \in stores, items \in tuples, n \in 1..MaxGets,
       commit \in commits, f \in fails :
      \E bg \in {TxOp(TxBegin(dbDims, dbFacts, idCache, f))} :
      \E r \in {GetTimes(bg, s, items, n, <<>>)} :
      LET ok == r.tx.err = "nil" /\ commit
      IN /\ bg.err = "nil"
         /\ dbDims' = IF ok THEN r.tx.dims ELSE dbDims
         /\ idCache' = r.tx.cache
         /\ hist' = [op |-> "Get", store |-> s, items |-> items, n |-> n,
                     ids |-> r.ids, err |-> r.tx.err,
                     rows |-> CountRows(r.tx.dims[IDSTORES[s].table], Tuple(items)),
                     held |-> [k \in 1..Len(r.ids) |->
                                 IF r.ids[k] \in 1..Len(r.tx.dims[IDSTORES[s].table])
                                 THEN r.tx.dims[IDSTORES[s].table][r.ids[k]]
                                 ELSE <<>>]]
         /\ UNCHANGED <<dbFacts, usVars, usConf, fsVars, smVars, rdVars, ctlVars>>

StoreIdGet == IdGetOf(GetStores, GetTuples, BOOLEAN, {0, 2, 3})

\* the arguments whose keys can coincide: dimProto is handed a *string,
\* which %v renders as its address, dimHosts four strings that %v joins by
\* spaces
ProtoTuples ==
    {<<PItem(S("http/1.1"), 1)>>, <<PItem(S("h2"), 1)>>, <<PItem(S("h2"), 2)>>}
HostTuples ==
    {<<SItem(<<"a", " ", "b">>), SItem(S("c")), SItem(S("1.2.3.4")), SItem(S("ns1"))>>,
     <<SItem(S("a")), SItem(<<"b", " ", "c">>), SItem(S("1.2.3.4")), SItem(S("ns1"))>>}

\* transactions that commit
StoreKeyGet ==
    \/ IdGetOf({"dimProto"}, ProtoTuples, {TRUE}, {0})
    \/ IdGetOf({"dimHosts"}, HostTuples, {TRUE}, {0})

\* the TTL entries of one cache, or of every cache, expire
ExpirySets == {IdStoreNames} \cup {{s} : s \in GetStores}

CacheExpire ==
    \E ss \in ExpirySets :
        /\ \E s \in ss : idCache[s] # {}
        /\ idCache' = [s \in IdStoreNames |-> IF s \in ss THEN {} ELSE idCache[s]]
        /\ hist' = [op |-> "CacheExpire"]
        /\ UNCHANGED <<dbDims, dbFacts, usVars, usConf, fsVars, smVars, rdVars, ctlVars>>

(***************************************************************************)
(* Initial states                                                          *)
(***************************************************************************)
MaxWorkers   == 2    \* calls of AddWorker
MaxPublished == 3    \* CrawlRequests published on the task channel

Workers == 1..MaxWorkers

DbInit ==
    /\ dbUrlVisits = <<>>
    /\ dbDims = EmptyDims
    /\ dbFacts = EmptyFacts
    /\ idCache = EmptyCache

\* NewURLStore on the empty database
UsInit ==
    /\ usStrings = EmptyFn
    /\ usUrls = EmptyFn
    /\ usIds = EmptyFn

\* NewWorkerController: both loops started, no worker yet
CtlInit ==
    /\ ready = 0
    /\ dpc = "await"
    /\ du = NilURL
    /\ rpc = "recv"
    /\ rpage = NoPage
    /\ nworkers = 0
    /\ wpc = [w \in Workers |-> "none"]
    /\ wreq = [w \in Workers |-> NilURL]
    /\ wresp = [w \in Workers |-> NoPage]
    /\ container = [w \in Workers |-> "none"]
    /\ rootDone = FALSE
    /\ childDone = FALSE
    /\ adding = FALSE
    /\ wneed = [w \in Workers |-> FALSE]
    /\ stats = [published |-> 0, handled |-> 0, readyPut |-> 0]

\* NewFileStore: nothing stored yet
FsEmpty ==
    /\ fsFiles = EmptyFn
    /\ fsKnown = EmptyFn
    /\ fsStored = {}

\* the FileStore for bodies that NewStore creates
FsInit ==
    /\ FsEmpty
    /\ fsComp = "gzip"
    /\ fsAllowedMime = <<"MimeIsText">>

MaxSamplers == 2    \* goroutines that call Sample

Samplers == 1..MaxSamplers

\* no goroutine is inside Sample
SmInit ==
    /\ spc = [t \in Samplers |-> "idle"]
    /\ su = [t \in Samplers |-> NilURL]
    /\ sampled = [u \in URLS |-> 0]

\* a reader that no fetch has started
IdleReader == [pc |-> "idle", stream |-> <<>>, seen |-> <<>>, out |-> <<>>,
               stop |-> FALSE]

RdInit == br = IdleReader /\ cr = IdleReader

InitStore ==
    /\ DbInit /\ UsInit /\ CtlInit /\ FsInit /\ SmInit /\ RdInit
    /\ resampling = TRUE /\ filters = <<>> /\ sampler = "uni"
    /\ hist = NoHist

NextStore == StoreSaveSession \/ CacheExpire

SpecStore == InitStore /\ [][NextStore]_vars

\* SaveSession on the pages of the crawl tests
NextCrawlStore == StoreSaveCrawl

SpecCrawlStore == InitStore /\ [][NextCrawlStore]_vars

\* SaveSession on the pages of the action store
NextActionStore == StoreSaveActions \/ CacheExpire

SpecActionStore == InitStore /\ [][NextActionStore]_vars

\* the IDStore alone: transactions that call Get and commit or roll back
NextIdStore == StoreIdGet \/ CacheExpire

SpecIdStore == InitStore /\ [][NextIdStore]_vars

\* the IDStores whose cache keys can coincide
NextIdKeys == StoreKeyGet \/ CacheExpire

SpecIdKeys == InitStore /\ [][NextIdKeys]_vars

(***************************************************************************)
(* SpecURL: the URL store driven through its API                           *)
(***************************************************************************)
\* the URLs handed to Add: every non-empty sequence up to MaxAddLen
AddURLS == {u \in URLS : u.host # "localhost"}
UrlSeqs == UNION {[1..n -> AddURLS] : n \in 1..MaxAddLen}

\* what the next call remembers of the call before it
HistSummary(h) ==
    IF h.op = "Add" /\ Len(h.urls) = 1
    THEN [op |-> "Add", urls |-> h.urls, count |-> h.count, rowsAdded |-> h.rowsAdded,
          wasKnown |-> h.wasKnown, dbFailed |-> h.dbFailed]
    ELSE [op |-> IF h.op = "Add" THEN "AddMany" ELSE h.op]

SetUsState(st) ==
    /\ dbUrlVisits' = st.db
    /\ usStrings' = st.strings
    /\ usUrls' = st.urls
    /\ usIds' = st.ids

\* us.Add(urls...)
UsAdd ==
    \E urls \in UrlSeqs, beginFails \in BOOLEAN,
       failing \in {{}} \cup {{i} : i \in 1..MaxAddLen} :
      LET r == UrlStoreAdd(UsState, filters, urls, beginFails, failing)
      IN /\ Len(dbUrlVisits) + Len(urls) <= MaxRows
         /\ failing \subseteq 1..Len(UrlsToAdd(urls, filters, usStrings))
         /\ beginFails => failing = {}
         /\ beginFails => UrlsToAdd(urls, filters, usStrings) # <<>>
         /\ SetUsState(r.st)
         /\ hist' = [op |-> "Add", urls |-> urls, count |-> r.count, err |-> r.err,
                     rowsAdded |-> Len(r.st.db) - Len(dbUrlVisits),
                     changed |-> (r.st # UsState),
                     wasKnown |-> {u \in AddURLS : UrlString(u) \in DOMAIN usStrings},
                     dbFailed |-> (beginFails \/ failing # {}),
                     prev |-> HistSummary(hist)]
         /\ UNCHANGED <<dbVars, usConf, fsVars, smVars, rdVars, ctlVars>>

\* us.Visit(u, t)
UsVisit ==
    \E u \in AddURLS, t \in Times, execFails \in BOOLEAN :
      LET r == UrlStoreVisit(UsState, resampling, u, t, execFails)
      IN /\ execFails => u \in DOMAIN usUrls
         /\ SetUsState(r.st)
         /\ hist' = [op |-> "Visit", u |-> u, t |-> t, err |-> r.err,
                     found |-> (u \in DOMAIN usUrls),
                     prev |-> IF hist.op = "Sample"
                              THEN [op |-> "Sample", u |-> hist.u, err |-> hist.err]
                              ELSE [op |-> "other"]]
         /\ UNCHANGED <<dbVars, usConf, fsVars, smVars, rdVars, ctlVars>>

\* us.Sample()
UsSample ==
    \E u \in SampleChoices(sampler, usUrls) :
      LET r == UrlStoreSample(UsState, resampling, u)
      IN /\ SetUsState(r.st)
         /\ hist' = [op |-> "Sample", u |-> r.u, err |-> r.err,
                     pool |-> DOMAIN usUrls, urls |-> usUrls]
         /\ UNCHANGED <<dbVars, usConf, fsVars, smVars, rdVars, ctlVars>>

\* db.Close(), then sql.Open on the same file and NewURLStore
UsRestart ==
      LET st == NewURLStore(dbUrlVisits, resampling)
      IN /\ dbUrlVisits # <<>>
         /\ SetUsState(st)
         /\ hist' = [op |-> "Restart", preUrls |-> usUrls, preIds |-> usIds]
         /\ UNCHANGED <<dbVars, usConf, fsVars, smVars, rdVars, ctlVars>>

InitURL ==
    /\ DbInit /\ UsInit /\ CtlInit /\ FsInit /\ SmInit /\ RdInit
    /\ resampling \in BOOLEAN
    /\ filters \in {<<>>, <<"com">>}
    /\ sampler \in {"uni", "pw"}
    /\ hist = NoHist

NextURL == UsAdd \/ UsVisit \/ UsSample \/ UsRestart

SpecURL == InitURL /\ [][NextURL]_vars

(***************************************************************************)
(* kraaler.Worker                                                          *)
(***************************************************************************)
\* the errors the debugger client hands to replyErr:
\*   cause  : cdp.ErrorCause(err)
\*   prefix : how err.Error() starts
RawErrs ==
    { [cause |-> "context.DeadlineExceeded", prefix |-> "cdp.Page:", text |-> "cdp.Page: deadline"],
      [cause |-> "context.DeadlineExceeded", prefix |-> "",          text |-> "context deadline exceeded"],
      [cause |-> "",                         prefix |-> "could not resolve", text |-> "could not resolve"],
      [cause |-> "",                         prefix |-> "",          text |-> "rpcc: closed"] }

\* replyErr in Worker.fetch: the error put into the Page
ReplyErr(raw) ==
    IF raw.cause = "context.DeadlineExceeded" /\ raw.prefix = "cdp.Page:"
    THEN "ErrTimeoutDOM"
    ELSE LET e1 == IF raw.cause = "context.DeadlineExceeded"
                   THEN "context.DeadlineExceeded" ELSE "nil"
             e2 == IF raw.prefix = "could not resolve" THEN "ErrDockerConn" ELSE e1
         IN IF e2 = "nil" THEN raw.text ELSE e2

\* Worker.fetch(ctx, req): the Pages it can return
FetchResults(u) ==
    {PageError(u, ReplyErr(raw)) : raw \in RawErrs}
    \cup {FetchResult(PageOK(u, <<>>)), PageRefused(u)}

\* errForReset built from context.DeadlineExceeded alone
ErrForResetDeadlineOnly(err) == err = Some(S("context.DeadlineExceeded"))

\* errForReset in Worker.Run
ErrForReset(err) ==
    err \in {Some(S("context.DeadlineExceeded")), Some(S("ErrDockerConn"))}

Busy(w) == wpc[w] \in {"fetch", "reset", "create", "send"}

\* resp := w.fetch(ctx, req); the deferred clientClose may leave the worker
\* with a container that was removed and not replaced
WorkerFetch(w) ==
    /\ wpc[w] = "fetch"
    /\ \E page \in FetchResults(wreq[w]), cont \in {container[w], "removed"} :
         /\ wresp' = [wresp EXCEPT ![w] = page]
         /\ container' = [container EXCEPT ![w] = cont]
         /\ wpc' = [wpc EXCEPT ![w] = IF ErrForReset(page.err) THEN "reset" ELSE "send"]
         /\ wneed' = [wneed EXCEPT ![w] =
                        page.err \in {Some(S("context.DeadlineExceeded")),
                                      Some(S("ErrDockerConn"))}]
    /\ hist' = NoHist
    /\ UNCHANGED <<dbVars, usVars, usConf, fsVars, smVars, rdVars, ready, dpc, du, rpc, rpage, nworkers,
                   wreq, rootDone, childDone, adding, stats>>

\* w.removeContainer(w.container)
WorkerRemove(w) ==
    /\ wpc[w] = "reset"
    /\ wpc' = [wpc EXCEPT ![w] = "create"]
    /\ container' = [container EXCEPT ![w] = "removed"]
    /\ hist' = NoHist
    /\ UNCHANGED <<dbVars, usVars, usConf, fsVars, smVars, rdVars, ready, dpc, du, rpc, rpage, nworkers,
                   wreq, wresp, rootDone, childDone, adding, wneed, stats>>

\* w.container, err = w.createContainer(), repeated while err != nil
WorkerCreate(w) ==
    /\ wpc[w] = "create"
    /\ \E ok \in BOOLEAN :
         /\ wpc' = [wpc EXCEPT ![w] = IF ok THEN "fetch" ELSE "create"]
         /\ container' = [container EXCEPT ![w] = IF ok THEN "up" ELSE "none"]
         /\ wneed' = [wneed EXCEPT ![w] = IF ok THEN FALSE ELSE @]
    /\ hist' = NoHist
    /\ UNCHANGED <<dbVars, usVars, usConf, fsVars, smVars, rdVars, ready, dpc, du, rpc, rpage, nworkers,
                   wreq, wresp, rootDone, childDone, adding, stats>>

(***************************************************************************)
(* kraaler.WorkerController                                                *)
(***************************************************************************)
\* AddWorker: NewWorker, go w.Run(), append, wc.ready <- true
AddWorker ==
    /\ nworkers < MaxWorkers
    /\ ~adding
    /\ \E created \in BOOLEAN :
         IF ~created
         THEN /\ hist' = NoHist
              /\ UNCHANGED <<nworkers, wpc, container, ready, adding>>
         ELSE /\ nworkers' = nworkers + 1
              /\ wpc' = [wpc EXCEPT ![nworkers + 1] = "idle"]
              /\ container' = [container EXCEPT ![nworkers + 1] = "up"]
              /\ IF ready = 0
                 THEN ready' = 1 /\ adding' = FALSE
                 ELSE ready' = ready /\ adding' = TRUE
              /\ hist' = NoHist
    /\ UNCHANGED <<dbVars, usVars, usConf, fsVars, smVars, rdVars, dpc, du, rpc, rpage, wreq, wresp,
                   rootDone, childDone, wneed, stats>>

\* AddWorker's send on wc.ready completes
AddWorkerReady ==
    /\ adding
    /\ ready = 0
    /\ ready' = 1
    /\ adding' = FALSE
    /\ hist' = NoHist
    /\ UNCHANGED <<dbVars, usVars, usConf, fsVars, smVars, rdVars, dpc, du, rpc, rpage, nworkers, wpc,
                   wreq, wresp, container, rootDone, childDone, wneed,
                   stats>>

\* WorkerController.Close(): wc.cancel() cancels the context that
\* NewWorkerController derived and dropped; wc.ctx is the parent
Close ==
    /\ ~childDone
    /\ childDone' = TRUE
    /\ hist' = [op |-> "Close"]
    /\ UNCHANGED <<dbVars, usVars, usConf, fsVars, smVars, rdVars, ready, dpc, du, rpc, rpage, nworkers,
                   wpc, wreq, wresp, container, rootDone, adding, wneed,
                   stats>>

\* the caller cancels the context it passed to NewWorkerController
RootCancel ==
    /\ ~rootDone
    /\ rootDone' = TRUE
    /\ childDone' = TRUE
    /\ hist' = NoHist
    /\ UNCHANGED <<dbVars, usVars, usConf, fsVars, smVars, rdVars, ready, dpc, du, rpc, rpage, nworkers,
                   wpc, wreq, wresp, container, adding, wneed, stats>>

\* the URLs the providers deliver
ProviderURLS == {u \in URLS : u.path = "" /\ u.host = "a.com"}

\* a URL provider's URL reaches us.Add (urlStore.Consume)
ProviderAdd ==
    \E u \in ProviderURLS :
      LET r == UrlStoreAdd(UsState, filters, <<u>>, FALSE, {})
      IN /\ Len(dbUrlVisits) < MaxRows
         /\ UrlString(u) \notin DOMAIN usStrings
         /\ SetUsState(r.st)
         /\ hist' = NoHist
         /\ UNCHANGED <<dbVars, usConf, fsVars, smVars, rdVars, ctlVars>>

\* startQueue: case <-wc.ctx.Done(): return (in any of its selects)
DispatchDone ==
    /\ dpc \in {"await", "sleep", "send"}
    /\ rootDone
    /\ dpc' = "done"
    /\ hist' = NoHist
    /\ UNCHANGED <<dbVars, usVars, usConf, fsVars, smVars, rdVars, ready, du, rpc, rpage, nworkers, wpc,
                   wreq, wresp, container, rootDone, childDone, adding,
                   wneed, stats>>

\* startQueue: case <-wc.ready: u, err = Sample()
DispatchSample ==
    /\ dpc = "await"
    /\ ready > 0
    /\ \E c \in SampleChoices(sampler, usUrls) :
         LET r == UrlStoreSample(UsState, resampling, c)
         IN /\ SetUsState(r.st)
            /\ du' = r.u
            /\ dpc' = IF r.err # "nil" THEN "sleep" ELSE "send"
            /\ hist' = NoHist
    /\ ready' = ready - 1
    /\ UNCHANGED <<dbVars, usConf, fsVars, smVars, rdVars, rpc, rpage, nworkers, wpc, wreq, wresp,
                   container, rootDone, childDone, adding, wneed, stats>>

\* startQueue: case <-time.After(500ms): continue
DispatchRetry ==
    /\ dpc = "sleep"
    /\ dpc' = "await"
    /\ hist' = NoHist
    /\ UNCHANGED <<dbVars, usVars, usConf, fsVars, smVars, rdVars, ready, du, rpc, rpage, nworkers, wpc,
                   wreq, wresp, container, rootDone, childDone, adding,
                   wneed, stats>>

\* wc.tasks <- CrawlRequest{...} meets a worker's req := <-queue
Publish(w) ==
    /\ dpc = "send"
    /\ wpc[w] = "idle"
    /\ stats.published < MaxPublished
    /\ dpc' = "await"
    /\ du' = NilURL
    /\ wpc' = [wpc EXCEPT ![w] = "fetch"]
    /\ wreq' = [wreq EXCEPT ![w] = du]
    /\ stats' = [stats EXCEPT !.published = @ + 1]
    /\ hist' = NoHist
    /\ UNCHANGED <<dbVars, usVars, usConf, fsVars, smVars, rdVars, ready, rpc, rpage, nworkers, wresp,
                   container, rootDone, childDone, adding, wneed>>

\* a send on the response channel that is taken while the Page before it is
\* still being stored
RespondWhileSaving(w) ==
    /\ wpc[w] = "send"
    /\ rpc \in {"recv", "save"}
    /\ wpc' = [wpc EXCEPT ![w] = "idle"]
    /\ rpc' = "save"
    /\ rpage' = wresp[w]
    /\ wreq' = [wreq EXCEPT ![w] = NilURL]
    /\ wresp' = [wresp EXCEPT ![w] = NoPage]
    /\ hist' = NoHist
    /\ UNCHANGED <<dbVars, usVars, usConf, fsVars, smVars, rdVars, ready, dpc, du, nworkers,
                   container, rootDone, childDone, adding, wneed, stats>>

\* results <- resp meets the response loop's sess := <-responses
Respond(w) ==
    /\ wpc[w] = "send"
    /\ rpc = "recv"
    /\ wpc' = [wpc EXCEPT ![w] = "idle"]
    /\ rpc' = "save"
    /\ rpage' = wresp[w]
    /\ wreq' = [wreq EXCEPT ![w] = NilURL]
    /\ wresp' = [wresp EXCEPT ![w] = NoPage]
    /\ hist' = NoHist
    /\ UNCHANGED <<dbVars, usVars, usConf, fsVars, smVars, rdVars, ready, dpc, du, nworkers,
                   container, rootDone, childDone, adding, wneed, stats>>

\* the response loop's handling of one Page: SaveSession, Visit, Add
ResponseSave ==
    /\ rpc = "save"
    /\ \E f \in {0, 1}, now \in Times :
         \E sv \in {SaveSession(dbDims, dbFacts, idCache, rpage, f)},
            vi \in {UrlStoreVisit(UsState, resampling, rpage.initialURL, now, FALSE)} :
         \E ad \in {UrlStoreAdd(vi.st, filters, rpage.documentURLs, FALSE, {})} :
            /\ dbDims' = sv.dims
            /\ dbFacts' = sv.facts
            /\ idCache' = sv.cache
            /\ fsFiles' = sv.files
            /\ fsKnown' = sv.known
            /\ fsStored' = fsStored \cup
                   {rpage.actions[i].body.raw : i \in {j \in 1..Len(rpage.actions) :
                      Sha256Sum(rpage.actions[j].body.raw)
                          \in DOMAIN sv.known \ DOMAIN fsKnown}}
            /\ SetUsState(ad.st)
            /\ hist' = [op |-> "ResponseSave", page |-> rpage, err |-> sv.err,
                        urlStoreChanged |-> (ad.st # UsState),
                        visited |-> (vi.st.db # dbUrlVisits),
                        added |-> ad.count]
    /\ rpc' = "emit"
    /\ rpage' = NoPage
    /\ stats' = [stats EXCEPT !.handled = @ + 1]
    /\ UNCHANGED <<usConf, fsComp, fsAllowedMime, smVars, rdVars, ready, dpc, du, nworkers, wpc, wreq, wresp,
                   container, rootDone, childDone, adding, wneed>>

\* a response loop that goes back to receiving without ready <- true
ResponseNoReady ==
    /\ rpc = "emit"
    /\ rpc' = "recv"
    /\ hist' = NoHist
    /\ UNCHANGED <<dbVars, usVars, usConf, fsVars, smVars, rdVars, ready, dpc, du, rpage, nworkers, wpc,
                   wreq, wresp, container, rootDone, childDone, adding, wneed,
                   stats>>

\* the response loop's ready <- true
ResponseReady ==
    /\ rpc = "emit"
    /\ ready = 0
    /\ ready' = 1
    /\ rpc' = "recv"
    /\ stats' = [stats EXCEPT !.readyPut = @ + 1]
    /\ hist' = NoHist
    /\ UNCHANGED <<dbVars, usVars, usConf, fsVars, smVars, rdVars, dpc, du, rpage, nworkers, wpc, wreq,
                   wresp, container, rootDone, childDone, adding, wneed>>

\* the response loop: case <-ctx.Done(): return
ResponseDone ==
    /\ rpc = "recv"
    /\ rootDone
    /\ rpc' = "done"
    /\ hist' = NoHist
    /\ UNCHANGED <<dbVars, usVars, usConf, fsVars, smVars, rdVars, ready, dpc, du, rpage, nworkers, wpc,
                   wreq, wresp, container, rootDone, childDone, adding,
                   wneed, stats>>

Init ==
    /\ DbInit /\ UsInit /\ CtlInit /\ FsInit /\ SmInit /\ RdInit
    /\ resampling \in BOOLEAN
    /\ filters = <<>>
    /\ sampler = "uni"
    /\ hist = NoHist

WorkerStep(w) ==
    WorkerFetch(w) \/ WorkerRemove(w) \/ WorkerCreate(w)

DispatchStep == DispatchDone \/ DispatchSample \/ DispatchRetry

ResponseStep == ResponseSave \/ ResponseReady \/ ResponseDone

Next ==
    \/ AddWorker
    \/ AddWorkerReady
    \/ Close
    \/ RootCancel
    \/ ProviderAdd
    \/ DispatchDone
    \/ DispatchSample
    \/ DispatchRetry
    \/ ResponseSave
    \/ ResponseReady
    \/ ResponseDone
    \/ \E w \in Workers : WorkerFetch(w)
    \/ \E w \in Workers : WorkerRemove(w)
    \/ \E w \in Workers : WorkerCreate(w)
    \/ \E w \in Workers : Publish(w)
    \/ \E w \in Workers : Respond(w)

Spec == Init /\ [][Next]_vars

\* the goroutines run whenever they can; the callers of AddWorker, Close,
\* the providers and the owner of the root context are under no obligation.
\* Weak fairness of the response loop is written out with its enabling
\* condition.
\* the response loop can take a step (ENABLED <<ResponseStep>>_vars)
ResponseEnabled ==
    \/ rpc = "save"
    \/ rpc = "emit" /\ ready = 0
    \/ rpc = "recv" /\ rootDone

FairSpec ==
    /\ Spec
    /\ WF_vars(DispatchStep)
    /\ ([]<>(~ResponseEnabled) \/ []<><<ResponseStep>>_vars)
    /\ WF_vars(AddWorkerReady)
    /\ \A w \in Workers : WF_vars(WorkerStep(w))
    /\ WF_vars(\E w \in Workers : Publish(w))
    /\ WF_vars(\E w \in Workers : Respond(w))

(***************************************************************************)
(* SpecSample: goroutines calling Sample while others call Add and Visit.   *)
(* Add and Visit hold us.m for their whole body; Sample holds the read     *)
(* lock for the sampler call, releases it, and takes the write lock for    *)
(* the delete.                                                             *)
(***************************************************************************)
MaxSampled == 2    \* Sample calls that start on a URL already returned

\* Sample, under us.m.RLock: the emptiness test and the sampler call
SampleRead(t) ==
    /\ spc[t] = "idle"
    /\ DOMAIN usUrls # {}
    /\ \E u \in SampleChoices(sampler, usUrls) :
          /\ u # NilURL
          /\ sampled[u] < MaxSampled
          /\ spc' = [spc EXCEPT ![t] = "picked"]
          /\ su' = [su EXCEPT ![t] = u]
    /\ hist' = NoHist
    /\ UNCHANGED <<dbVars, usVars, usConf, fsVars, rdVars, ctlVars, sampled>>

\* Sample, after us.m.RUnlock: the delete under us.m.Lock when resampling
\* is off, and the return of the URL
SampleDelete(t) ==
    /\ spc[t] = "picked"
    /\ usUrls' = IF ~resampling THEN FnDel(usUrls, su[t]) ELSE usUrls
    /\ sampled' = [sampled EXCEPT ![su[t]] = @ + 1]
    /\ spc' = [spc EXCEPT ![t] = "idle"]
    /\ su' = [su EXCEPT ![t] = NilURL]
    /\ hist' = NoHist
    /\ UNCHANGED <<dbVars, dbUrlVisits, usStrings, usIds, usConf, fsVars, rdVars,
                   ctlVars>>

NextSample ==
    \/ UsAdd
    \/ UsVisit
    \/ \E t \in Samplers : SampleRead(t)
    \/ \E t \in Samplers : SampleDelete(t)

SpecSample == InitURL /\ [][NextSample]_vars

(***************************************************************************)
(* SpecFile: one FileStore driven through Store and through BodyStore.Save *)
(***************************************************************************)
MaxBodies == 1    \* committed rows of fact_bodies

\* fs.Store(raw)
FsStore ==
    \E raw \in PAYLOADS, fail \in IOFails :
      \E st \in {FileStoreStore(fsFiles, fsKnown, fsComp, fsAllowedMime, raw, fail)} :
         /\ fail # "none" => st.err = "io"
         /\ fsFiles' = st.files
         /\ fsKnown' = st.known
         /\ fsStored' = IF st.created THEN fsStored \cup {raw} ELSE fsStored
         /\ hist' = [op |-> "Store", raw |-> raw, sf |-> st.sf, err |-> st.err,
                     created |-> st.created,
                     wasKnown |-> (Sha256Sum(raw) \in DOMAIN fsKnown),
                     changed |-> (st.files # fsFiles \/ st.known # fsKnown)]
         /\ UNCHANGED <<dbVars, usVars, usConf, fsComp, fsAllowedMime, smVars, rdVars, ctlVars>>

\* tx begins, bodyStore.Save(tx, id, body, mime) runs, tx commits when Save
\* returned nil and rolls back otherwise
\*   mime : the mime type the browser reports for the body
\*   f    : the statement that returns an error: none, or the SELECT of the
\*          first Get
FsBodySave ==
    \E raw \in PAYLOADS, mime \in {<<"text/", "html">>}, fail \in IOFails, f \in {0, 2} :
      \E st \in {FileStoreStore(fsFiles, fsKnown, fsComp, fsAllowedMime, raw, fail)} :
      \E bg \in {TxOp(TxBegin(dbDims, dbFacts, idCache, f))} :
      \E tx \in {BodyStoreSave(bg, st, Len(dbFacts["fact_bodies"]) + 1, mime)} :
      \E cm \in {TxOp(tx)} :
         /\ Len(dbFacts["fact_bodies"]) < MaxBodies
         /\ fail # "none" => st.err = "io"
         /\ f # 0 => cm.err = "db"
         /\ bg.err = "nil"
         /\ fsFiles' = st.files
         /\ fsKnown' = st.known
         /\ fsStored' = IF st.created THEN fsStored \cup {raw} ELSE fsStored
         /\ dbDims' = IF cm.err = "nil" THEN cm.dims ELSE dbDims
         /\ dbFacts' = IF cm.err = "nil" THEN cm.facts ELSE dbFacts
         /\ idCache' = cm.cache
         /\ hist' = [op |-> "BodySave", raw |-> raw, sf |-> st.sf, storeErr |-> st.err,
                     err |-> tx.err, dbFail |-> f,
                     id |-> Len(dbFacts["fact_bodies"]) + 1,
                     inserted |-> SubSeq(tx.facts["fact_bodies"],
                                         Len(dbFacts["fact_bodies"]) + 1,
                                         Len(tx.facts["fact_bodies"])),
                     changed |-> (st.files # fsFiles \/ st.known # fsKnown)]
         /\ UNCHANGED <<dbUrlVisits, usStrings, usUrls, usIds, usConf, fsComp,
                        fsAllowedMime, smVars, rdVars, ctlVars>>

InitFile ==
    /\ DbInit /\ UsInit /\ CtlInit /\ SmInit /\ RdInit /\ FsEmpty
    /\ fsComp \in {"none", "gzip"}
    /\ fsAllowedMime \in {<<"MimeAny">>, <<"MimeIsText">>}
    /\ resampling = TRUE /\ filters = <<>> /\ sampler = "uni"
    /\ hist = NoHist

NextFile == FsStore \/ FsBodySave

SpecFile == InitFile /\ [][NextFile]_vars

(***************************************************************************)
(* ActionsFromEvents                                                       *)
(*   an action is [kind, sent, rid, parent, response, error, body]: sent   *)
(*   is the position of its request event, parent the position in the     *)
(*   action list of the action it points to (0: nil)                       *)
(***************************************************************************)
MaxEvents == 2    \* request events of one fetch

\* network.RequestWillBeSentReply: url is the outcome of url.Parse on
\* Request.URL ("bad": an error, "data": the data scheme), redirect is
\* *RedirectResponse
RequestEvents ==
    [rid : {1, 2}, loader : {1}, url : {"http", "data", "bad"},
     type : {"other", "parser"}, ts : {1, 2},
     redirect : {[nil |-> TRUE, status |-> 0], [nil |-> FALSE, status |-> 301]}]

\* the BrowserEvents handed to ActionsFromEvents
BROWSEREVENTS ==
    [requests  : UNION {[1..n -> RequestEvents] : n \in 1..MaxEvents},
     responses : UNION {[1..n -> [rid : {1, 2}, status : {200, 302}]] : n \in 0..1},
     errors    : UNION {[1..n -> [rid : {1}, text : {S("net::ERR_FAILED"),
                                                    S("net::ERR_ABORTED")}]] : n \in 0..2},
     bodies    : UNION {[1..n -> [rid : {2}]] : n \in 0..1}]

\* a loop over events.requests that keeps the requests of data: URLs
RECURSIVE ActionsFromRequestsData(_, _, _)
ActionsFromRequestsData(reqs, i, st) ==
    IF i > Len(reqs) THEN st
    ELSE LET sent == reqs[i]
             has  == sent.loader \in DOMAIN st.requests
             p    == IF has THEN st.requests[sent.loader] ELSE 0
             ca   == [kind |-> sent.type, sent |-> i, rid |-> sent.rid, parent |-> p,
                      response |-> [nil |-> TRUE, status |-> 0],
                      error |-> NilStr, body |-> FALSE]
             acts == IF has THEN [st.actions EXCEPT ![p].response = sent.redirect]
                     ELSE st.actions
         IN IF sent.url = "bad"
            THEN ActionsFromRequestsData(reqs, i + 1, st)
            ELSE ActionsFromRequestsData(reqs, i + 1,
                     [actions  |-> Append(acts, ca),
                      requests |-> FnPut(st.requests, sent.rid, Len(acts) + 1)])

\* a loop over events.requests that registers the action under its
\* request-id before it looks up the loader (not what the code does)
RECURSIVE ActionsFromRequestsLate(_, _, _)
ActionsFromRequestsLate(reqs, i, st) ==
    IF i > Len(reqs) THEN st
    ELSE LET sent == reqs[i]
             regd == FnPut(st.requests, sent.rid, Len(st.actions) + 1)
             has  == sent.loader \in DOMAIN regd
             p    == IF has THEN regd[sent.loader] ELSE 0
             ca   == [kind |-> sent.type, sent |-> i, rid |-> sent.rid, parent |-> p,
                      response |-> [nil |-> TRUE, status |-> 0],
                      error |-> NilStr, body |-> FALSE]
         IN IF sent.url \in {"bad", "data"}
            THEN ActionsFromRequestsLate(reqs, i + 1, st)
            ELSE ActionsFromRequestsLate(reqs, i + 1,
                     [actions  |-> Append(st.actions, ca), requests |-> regd])

\* the loop over events.requests, from event i on; st is [actions, requests]
RECURSIVE ActionsFromRequests(_, _, _)
ActionsFromRequests(reqs, i, st) ==
    IF i > Len(reqs) THEN st
    ELSE LET sent == reqs[i]
             has  == sent.loader \in DOMAIN st.requests
             p    == IF has THEN st.requests[sent.loader] ELSE 0
             ca   == [kind |-> sent.type, sent |-> i, rid |-> sent.rid, parent |-> p,
                      response |-> [nil |-> TRUE, status |-> 0],
                      error |-> NilStr, body |-> FALSE]
             acts == IF has THEN [st.actions EXCEPT ![p].response = sent.redirect]
                     ELSE st.actions
         IN IF sent.url \in {"bad", "data"}
            THEN ActionsFromRequests(reqs, i + 1, st)
            ELSE ActionsFromRequests(reqs, i + 1,
                     [actions  |-> Append(acts, ca),
                      requests |-> FnPut(st.requests, sent.rid, Len(acts) + 1)])

\* an error loop in which a later loading-failed event overwrites the text
ErrorTextLast(errors, js) == errors[CHOOSE j \in js : \A m \in js : m <= j].text

\* the loop over events.errors for one action, js being the events of its
\* request-id: req.Error is set only while it is nil
ErrorText(errors, js) == errors[CHOOSE j \in js : \A m \in js : j <= m].text

\* ActionsFromEvents(events)
ActionsFromEvents(events) ==
    LET st == ActionsFromRequests(events.requests, 1,
                                  [actions |-> <<>>, requests |-> EmptyFn])
        \* the events of a list that requests[RequestID] hands to action k
        hits(evs, k) == {j \in 1..Len(evs) :
                            /\ evs[j].rid \in DOMAIN st.requests
                            /\ st.requests[evs[j].rid] = k}
        last(js)  == CHOOSE j \in js : \A m \in js : m <= j
        \* after the loops over responses, errors and bodies
        filled == [k \in 1..Len(st.actions) |->
                    [st.actions[k] EXCEPT
                       !.response = IF hits(events.responses, k) = {} THEN @
                                    ELSE [nil |-> FALSE,
                                          status |-> events.responses[
                                              last(hits(events.responses, k))].status],
                       !.error = IF hits(events.errors, k) = {} THEN @
                                 ELSE Some(ErrorText(events.errors,
                                                     hits(events.errors, k))),
                       !.body = hits(events.bodies, k) # {}]]
    \* the classification loop
    IN [k \in 1..Len(filled) |->
          LET a == filled[k]
          IN IF a.parent # 0 /\ ~filled[a.parent].response.nil
             THEN IF /\ filled[a.parent].response.status >= 300
                     /\ filled[a.parent].response.status < 400
                  THEN [a EXCEPT !.kind = "redirect"]
                  ELSE a
             ELSE [a EXCEPT !.kind = "user"]]

\* fetch hands the events it collected to ActionsFromEvents, once for a Page
FetchActions ==
    /\ hist = NoHist
    /\ \E events \in BROWSEREVENTS :
          hist' = [op |-> "ActionsFromEvents", events |-> events,
                   actions |-> ActionsFromEvents(events)]
    /\ UNCHANGED <<dbVars, usVars, usConf, fsVars, smVars, rdVars, ctlVars>>

SpecActions == InitStore /\ [][FetchActions]_vars

(***************************************************************************)
(* Redirect chains handed to ActionsFromEvents                             *)
(***************************************************************************)
MaxHops == 3    \* request events of one redirect chain

\* the events of a chain of n hops: the request events share rid and
\* loader, event i + 1 carries the redirect response of hop i, and one
\* response event and one body event follow for rid
ChainEvents(n, rid, loader, types, statuses, final) ==
    [requests  |-> [i \in 1..n |->
                      [rid |-> rid, loader |-> loader, url |-> "http",
                       type |-> types[i], ts |-> i,
                       redirect |-> IF i = 1 THEN [nil |-> TRUE, status |-> 0]
                                    ELSE [nil |-> FALSE, status |-> statuses[i - 1]]]],
     responses |-> <<[rid |-> rid, status |-> final]>>,
     errors    |-> <<>>,
     bodies    |-> <<[rid |-> rid]>>]

\* fetch hands the events of one redirect chain to ActionsFromEvents; the
\* loader-id is the request-id for a navigation and the id of the document
\* for a subresource
FetchChain ==
    /\ hist = NoHist
    /\ \E n \in 1..MaxHops, rid \in {1, 2}, loader \in {1, 2}, final \in {200, 404} :
       \E types \in [1..n -> {"other", "parser"}],
          statuses \in [1..(n - 1) -> {301, 302}] :
          \E events \in {ChainEvents(n, rid, loader, types, statuses, final)} :
             hist' = [op |-> "Chain", n |-> n, rid |-> rid, loader |-> loader,
                      final |-> final, events |-> events,
                      actions |-> ActionsFromEvents(events)]
    /\ UNCHANGED <<dbVars, usVars, usConf, fsVars, smVars, rdVars, ctlVars>>

SpecChain == InitStore /\ [][FetchChain]_vars

(***************************************************************************)
(* The event readers of Worker.fetch: responseBodyReader and consoleReader *)
(***************************************************************************)
MaxFinished == 3
MaxConsole == 2

\* what GetResponseBody answers for a finished request: an error, a plain
\* body, a base64 body, or a body flagged base64 that does not decode
BodyReplies == {"err", "plain", "base64", "badbase64"}

\* the Network.loadingFinished events of one fetch, in emission order; the
\* request ids are those of distinct requests
LOADINGS ==
    UNION {{[i \in 1..n |-> [rid |-> i, reply |-> f[i]]] : f \in [1..n -> BodyReplies]}
              : n \in 1..MaxFinished}

\* the ResponseBody appended for req
ResponseBody(req) ==
    [rid  |-> req.rid,
     body |-> IF req.reply = "base64" THEN "decoded" ELSE "text"]

\* one iteration of the goroutine of responseBodyReader: Recv, then
\* GetResponseBody, then the select that appends unless stop is closed
BodyRecv ==
    /\ br.pc = "recv"
    /\ br.stream # <<>>
    /\ \E req \in {Head(br.stream)} :
          br' = [br EXCEPT !.stream = Tail(@),
                           !.seen = Append(@, req),
                           !.pc = IF req.reply = "err" \/ br.stop
                                  THEN "returned" ELSE "recv",
                           !.out = IF req.reply = "err" \/ br.stop
                                   THEN @ ELSE Append(@, ResponseBody(req))]
    /\ hist' = NoHist
    /\ UNCHANGED <<dbVars, usVars, usConf, fsVars, smVars, cr, ctlVars>>

\* the function responseBodyReader returns, called once by fetch
BodyStop ==
    /\ br.pc # "idle"
    /\ ~br.stop
    /\ br' = [br EXCEPT !.stop = TRUE]
    /\ hist' = NoHist
    /\ UNCHANGED <<dbVars, usVars, usConf, fsVars, smVars, cr, ctlVars>>

\* loadings.Recv() fails once fetch has returned and its context is gone
BodyRecvErr ==
    /\ br.pc = "recv"
    /\ br.stop
    /\ br' = [br EXCEPT !.pc = "returned"]
    /\ hist' = NoHist
    /\ UNCHANGED <<dbVars, usVars, usConf, fsVars, smVars, cr, ctlVars>>

InitBodyReader ==
    /\ DbInit /\ UsInit /\ CtlInit /\ FsInit /\ SmInit
    /\ resampling = TRUE /\ filters = <<>> /\ sampler = "uni"
    /\ br \in {[IdleReader EXCEPT !.pc = "recv", !.stream = l] : l \in LOADINGS}
    /\ cr = IdleReader
    /\ hist = NoHist

NextBodyReader == BodyRecv \/ BodyStop \/ BodyRecvErr

SpecBodyReader == InitBodyReader /\ [][NextBodyReader]_vars

\* the goroutine runs whenever an event is waiting; fetch is under no
\* obligation to stop the reader
FairBodyReader == SpecBodyReader /\ WF_vars(BodyRecv) /\ WF_vars(BodyRecvErr)

\* the arguments of a console call, each rendered by %s
ConsoleArgs == {<<>>, <<"a">>, <<"a", "b">>}

\* the Runtime.consoleAPICalled events of one fetch, in emission order
ConsoleEvents == [type : {"log", "error"}, args : ConsoleArgs, frames : 0..1]

CONSOLES == UNION {[1..n -> ConsoleEvents] : n \in 1..MaxConsole}

\* txt += fmt.Sprintf("%s ", o.Value) for every argument
RECURSIVE SprintArgs(_)
SprintArgs(args) ==
    IF args = <<>> THEN <<>>
    ELSE <<Head(args), " ">> \o SprintArgs(Tail(args))

\* txt[0 : len(txt)-1]: a slice expression that panics when txt is empty
ConsoleText(args) ==
    LET txt == SprintArgs(args)
    IN IF Len(txt) = 0 THEN [panic |-> TRUE, txt |-> <<>>]
       ELSE [panic |-> FALSE, txt |-> SubSeq(txt, 1, Len(txt) - 1)]

\* the JavaScriptConsole built for msg
ConsoleMessage(msg) ==
    [msg  |-> ConsoleText(msg.args).txt,
     line |-> IF msg.frames > 0 THEN 1 ELSE 0]

\* one iteration of the goroutine of consoleReader; seen holds the events
\* received while stop was open
ConsoleRecv ==
    /\ cr.pc = "recv"
    /\ cr.stream # <<>>
    /\ \E msg \in {Head(cr.stream)} :
          cr' = IF msg.type # "log"
                THEN [cr EXCEPT !.stream = Tail(@),
                                !.seen = IF cr.stop THEN @ ELSE Append(@, msg)]
                ELSE IF ConsoleText(msg.args).panic
                THEN [cr EXCEPT !.stream = Tail(@), !.pc = "panic",
                                !.seen = IF cr.stop THEN @ ELSE Append(@, msg)]
                ELSE IF cr.stop
                THEN [cr EXCEPT !.stream = Tail(@), !.pc = "returned"]
                ELSE [cr EXCEPT !.stream = Tail(@),
                                !.seen = Append(@, msg),
                                !.out = Append(@, ConsoleMessage(msg))]
    /\ hist' = NoHist
    /\ UNCHANGED <<dbVars, usVars, usConf, fsVars, smVars, br, ctlVars>>

\* the function consoleReader returns, called once by fetch
ConsoleStop ==
    /\ cr.pc = "recv"
    /\ ~cr.stop
    /\ cr' = [cr EXCEPT !.stop = TRUE]
    /\ hist' = NoHist
    /\ UNCHANGED <<dbVars, usVars, usConf, fsVars, smVars, br, ctlVars>>

\* messages.Recv() fails once fetch has returned and its context is gone
ConsoleRecvErr ==
    /\ cr.pc = "recv"
    /\ cr.stop
    /\ cr' = [cr EXCEPT !.pc = "returned"]
    /\ hist' = NoHist
    /\ UNCHANGED <<dbVars, usVars, usConf, fsVars, smVars, br, ctlVars>>

InitConsoleReader ==
    /\ DbInit /\ UsInit /\ CtlInit /\ FsInit /\ SmInit
    /\ resampling = TRUE /\ filters = <<>> /\ sampler = "uni"
    /\ br = IdleReader
    /\ cr \in {[IdleReader EXCEPT !.pc = "recv", !.stream = l] : l \in CONSOLES}
    /\ hist = NoHist

NextConsoleReader == ConsoleRecv \/ ConsoleStop \/ ConsoleRecvErr

SpecConsoleReader == InitConsoleReader /\ [][NextConsoleReader]_vars

(***************************************************************************)
(* Properties                                                              *)
(***************************************************************************)

\* C1: SaveSession is atomic. A step that returns an error makes SaveSession
\* return an error; a call that returns an error leaves the database as it
\* was; a call that returns nil has committed the session row and one
\* fact_actions row per action of the Page.
C1_SaveSessionAtomic ==
    hist.op = "SaveSession" =>
        /\ hist.stepFailed => hist.err # "nil"
        /\ hist.err # "nil" => ~hist.dbChanged
        /\ hist.err = "nil" =>
              /\ hist.newRows["fact_sessions"] = 1
              /\ hist.newRows["fact_actions"] = Len(hist.page.actions)
              /\ hist.newRows["fact_console_output"] = Len(hist.page.console)
              /\ hist.newRows["fact_screenshots"] = Len(hist.page.screenshots)

\* C2: N successive IDStore.Get(tx, t) that return no error all return the
\* same id, that id is not zero, and afterwards the table holds exactly one
\* row for t.
C2_GetSameIdOneRow ==
    (hist.op = "Get" /\ hist.err = "nil") =>
        /\ \A i \in 1..hist.n : hist.ids[i] = hist.ids[1] /\ hist.ids[i] > 0
        /\ hist.rows = 1

\* C3: when SaveSession returned an error the response loop calls neither
\* Visit nor Add: the URL store is as it was before the Page arrived.
C3_NoVisitAfterFailedSave ==
    (hist.op = "ResponseSave" /\ hist.err # "nil") => ~hist.urlStoreChanged

\* C4: a dispatch loop that found the store empty and is waiting to retry
\* reaches the publication of a CrawlRequest once the store holds a URL,
\* unless the context is cancelled.
C4_RetryPublishes ==
    (dpc = "sleep" /\ DOMAIN usUrls # {}) ~> (dpc = "send" \/ rootDone)

\* C5: a worker that has taken a CrawlRequest eventually has a Page to send
\* on the response channel.
C5_WorkerAnswers ==
    \A w \in Workers : (wpc[w] = "fetch") ~> (wpc[w] = "send")

\* C6: once Close() has been called, the context that the dispatch loop and
\* the response loop observe is cancelled.
C6_CloseCancels ==
    childDone => rootDone

\* C7: the CrawlRequests published and not yet stored are at most the number
\* of workers plus one, and every stored response has put one ready signal
\* back (the one being put is that of the response just stored).
C7_InFlightBound ==
    /\ stats.published - stats.handled <= nworkers + 1
    /\ stats.handled = stats.readyPut + (IF rpc = "emit" THEN 1 ELSE 0)

C7_Witness ==
    /\ nworkers = 1
    /\ stats.published - stats.handled = 1
    /\ stats.handled = 2
    /\ stats.readyPut = 2

C9_AddTwice ==
    (/\ hist.op = "Add"
     /\ Len(hist.urls) = 1
     /\ hist.prev.op = "Add"
     /\ hist.prev.urls = hist.urls
     /\ PassesFilters(filters, hist.urls[1])
     /\ hist.urls[1] \notin hist.prev.wasKnown
     /\ ~hist.prev.dbFailed)
    => /\ hist.prev.count = 1
       /\ hist.prev.rowsAdded = 1
       /\ hist.count = 0
       /\ hist.rowsAdded = 0
       /\ ~hist.changed

C9_Witness ==
    /\ hist.op = "Add"
    /\ Len(hist.urls) = 1
    /\ hist.prev.op = "Add"
    /\ hist.prev.urls = hist.urls
    /\ hist.prev.count = 1
    /\ hist.count = 0
    /\ Len(dbUrlVisits) = 1

\* C10: a store reopened with resampling on the same database gives every
\* visited URL the id it had and a last visit with the same unix second.
C10_RestartRoundTrip ==
    (hist.op = "Restart" /\ resampling) =>
        \A u \in DOMAIN hist.preUrls :
            hist.preUrls[u].valid =>
                /\ u \in DOMAIN usUrls
                /\ usIds[u] = hist.preIds[u]
                /\ usUrls[u].valid
                /\ usUrls[u].sec = hist.preUrls[u].sec

\* C11: after any sequence of Add calls, one call with the same URL twice
\* included, url_visits holds at most one row per URL string, the in-memory
\* set holds at most one URL per string, and the id the store holds for a URL
\* is the id of the first row inserted for its string.
C11_OneEntryPerString ==
    /\ \A i, j \in 1..Len(dbUrlVisits) :
          dbUrlVisits[i].url = dbUrlVisits[j].url => i = j
    /\ \A s \in DOMAIN usStrings :
          Cardinality({u \in DOMAIN usUrls : UrlString(u) = s}) <= 1
    /\ \A u \in DOMAIN usIds : \A i \in 1..Len(dbUrlVisits) :
          dbUrlVisits[i].url = UrlString(u) => usIds[u] <= i

\* C12: Visit(u, t) of a URL u that the Sample call before it returned sets
\* last_visit of u's row to t.Unix(); with resampling the in-memory record
\* of u is t, without resampling u is not in the pool afterwards.
C12_VisitAfterSample ==
    (/\ hist.op = "Visit"
     /\ hist.err = "nil"
     /\ hist.prev.op = "Sample"
     /\ hist.prev.err = "nil"
     /\ hist.prev.u = hist.u)
    => /\ \E i \in 1..Len(dbUrlVisits) :
             /\ dbUrlVisits[i].url = UrlString(hist.u)
             /\ dbUrlVisits[i].last_visit = ValidInt64(TimeToUnix(hist.t))
       /\ resampling => /\ hist.u \in DOMAIN usUrls
                        /\ usUrls[hist.u] = PtrTime(hist.t)
       /\ ~resampling => hist.u \notin DOMAIN usUrls

\* C13: a store created with resampling disabled on a database that holds
\* rows leaves every row with a non-null last_visit out of the pool.
C13_VisitedNotLoaded ==
    (hist.op = "Restart" /\ ~resampling) =>
        \A i \in 1..Len(dbUrlVisits) :
            dbUrlVisits[i].last_visit.valid =>
                UrlParse(dbUrlVisits[i].url) \notin DOMAIN usUrls

\* C15: Sample returns StoreIsEmpty when the pool is empty and otherwise a
\* URL of the pool, with no error; there is no third outcome.
C15_SampleTwoOutcomes ==
    hist.op = "Sample" =>
        \/ /\ hist.pool = {}
           /\ hist.err = "StoreIsEmpty"
           /\ hist.u = NilURL
        \/ /\ hist.pool # {}
           /\ hist.err = "nil"
           /\ hist.u \in hist.pool

\* C14: with resampling disabled no URL is returned by Sample more than
\* once, whatever the interleaving of the Sample, Add and Visit calls.
C14_SampledOnce ==
    ~resampling => \A u \in URLS : sampled[u] <= 1

C17_ReadBackIsPayload ==
    (hist.op = "Store" /\ hist.err = "nil") =>
        /\ ReadBack(fsComp, fsFiles[hist.sf.path]) = [err |-> "nil", raw |-> hist.raw]
        /\ hist.sf.compSize = Len(fsFiles[hist.sf.path])

C19_InitiatorKinds ==
    hist.op = "ActionsFromEvents" =>
        \A k \in 1..Len(hist.actions) :
            LET a == hist.actions[k]
                redirected == /\ a.parent # 0
                              /\ ~hist.actions[a.parent].response.nil
                              /\ hist.actions[a.parent].response.status >= 300
                              /\ hist.actions[a.parent].response.status < 400
            IN /\ redirected => a.kind = "redirect"
               /\ a.parent = 0 => a.kind = "user"
               /\ (a.parent # 0 /\ ~redirected) =>
                     a.kind = hist.events.requests[a.sent].type

\* C20: the actions of a Page are in non-decreasing order of the start time
\* of their request, and actions with equal start times are in the order
\* in which their request events were received.
C20_ActionsByStartTime ==
    hist.op = "ActionsFromEvents" =>
        \A i, j \in 1..Len(hist.actions) :
            i < j =>
               LET ti == hist.events.requests[hist.actions[i].sent].ts
                   tj == hist.events.requests[hist.actions[j].sent].ts
               IN /\ ti <= tj
                  /\ ti = tj => hist.actions[i].sent < hist.actions[j].sent

\* C21: for a redirect chain of n request events that share one request-id,
\* each later event carrying the redirect response of the previous hop,
\* followed by one response event and one body event for that request-id,
\* ActionsFromEvents returns n actions in hop order: hop i + 1 has hop i as
\* parent, hops 1..n-1 carry their redirect response and no body, the last
\* hop carries the final response and the body, and the initiators are
\* user, redirect, ..., redirect.
C21_RedirectChain ==
    hist.op = "Chain" =>
        /\ Len(hist.actions) = hist.n
        /\ \A i \in 1..Len(hist.actions) :
              LET a == hist.actions[i]
              IN /\ a.sent = i
                 /\ a.parent = i - 1
                 /\ a.kind = IF i = 1 THEN "user" ELSE "redirect"
                 /\ IF i < hist.n
                    THEN /\ a.response = hist.events.requests[i + 1].redirect
                         /\ ~a.body
                    ELSE /\ a.response = [nil |-> FALSE, status |-> hist.final]
                         /\ a.body

\* C24: in the list ActionsFromEvents returns, the parent of every action
\* that has one is an element of the list and sits at a strictly smaller
\* index than the action.
C24_ParentPrecedes ==
    hist.op = "ActionsFromEvents" =>
        \A k \in 1..Len(hist.actions) :
            hist.actions[k].parent # 0 =>
                /\ hist.actions[k].parent \in 1..Len(hist.actions)
                /\ hist.actions[k].parent < k

\* two request events with the loader of the first: the second action
\* points to the first
C24_Witness ==
    /\ hist.op = "ActionsFromEvents"
    /\ Len(hist.actions) = 2
    /\ hist.actions[1].parent = 0
    /\ hist.actions[2].parent = 1

\* C22: every Page a worker sends on the response channel, successful or
\* carrying an error, has initiated <= navigated <= loaded <= terminated.
C22_PageTimesOrdered ==
    LET Leq(a, b) == a.sec < b.sec \/ (a.sec = b.sec /\ a.nsec <= b.nsec)
    IN \A w \in Workers :
          wpc[w] = "send" =>
              /\ Leq(wresp[w].initiated, wresp[w].navigated)
              /\ Leq(wresp[w].navigated, wresp[w].loaded)
              /\ Leq(wresp[w].loaded, wresp[w].terminated)

\* C23: for every Page persisted successfully (SaveSession committed), the
\* number of fact_actions rows with the new session id equals
\* len(page.actions), and the amount_of_actions column of the new
\* fact_sessions row holds the same number.
C23_ActionRowsCount ==
    (hist.op = "SaveSession" /\ hist.err = "nil" /\ ~hist.stepFailed) =>
        LET sid  == Len(dbFacts["fact_sessions"])
            rows == {i \in 1..Len(dbFacts["fact_actions"]) :
                        dbFacts["fact_actions"][i].session_id = sid}
        IN /\ hist.newRows["fact_sessions"] = 1
           /\ Cardinality(rows) = Len(hist.page.actions)
           /\ dbFacts["fact_sessions"][sid].amount_of_actions = Len(hist.page.actions)

\* the second committed session is the page of the refused connection, whose
\* one action has no response
C23_Witness ==
    /\ hist.op = "SaveSession" /\ hist.err = "nil" /\ ~hist.stepFailed
    /\ Len(dbFacts["fact_sessions"]) = 2
    /\ Len(hist.page.actions) = 1
    /\ hist.page.actions[1].resp.nil
    /\ Len(dbFacts["fact_actions"]) > 1

\* C25: for every action with a parent in a successfully persisted Page, the
\* parent_id column of its fact_actions row is the id of the fact_actions
\* row inserted for the parent action in the same SaveSession call; actions
\* without a parent store a null parent_id.
C25_ParentIdResolved ==
    (hist.op = "SaveSession" /\ hist.err = "nil" /\ ~hist.stepFailed) =>
        LET n    == Len(hist.page.actions)
            base == Len(dbFacts["fact_actions"]) - n
        IN \A k \in 1..n :
              LET a   == hist.page.actions[k]
                  row == dbFacts["fact_actions"][base + k]
              IN IF a.parent = 0
                 THEN row.parent_id = Null
                 ELSE /\ row.parent_id = base + a.parent
                      /\ dbFacts["fact_actions"][row.parent_id].session_id = row.session_id

\* a second committed session whose second action points to its first
C25_Witness ==
    /\ hist.op = "SaveSession" /\ hist.err = "nil" /\ ~hist.stepFailed
    /\ Len(dbFacts["fact_sessions"]) = 2
    /\ Len(hist.page.actions) = 2
    /\ hist.page.actions[2].parent = 1
    /\ dbFacts["fact_actions"][Len(dbFacts["fact_actions"])].parent_id
          = Len(dbFacts["fact_actions"]) - 1
    /\ Len(dbFacts["fact_actions"]) > 2

\* C26: ConsoleStore.Save inserts exactly one fact_console_output row per
\* console message of the Page, all with the given session id, with
\* seq = 1, 2, ..., n in the order of the messages in page.console.
C26_ConsoleRows ==
    (hist.op = "SaveSession" /\ hist.err = "nil" /\ ~hist.stepFailed) =>
        LET n    == Len(hist.page.console)
            sid  == Len(dbFacts["fact_sessions"])
            rows == dbFacts["fact_console_output"]
            base == Len(rows) - n
        IN /\ hist.newRows["fact_console_output"] = n
           /\ {i \in 1..Len(rows) : rows[i].session_id = sid} = (base + 1)..(base + n)
           /\ \A i \in 1..n : rows[base + i].seq = i

\* a committed session with two console messages, stored after another one
C26_Witness ==
    /\ hist.op = "SaveSession" /\ hist.err = "nil" /\ ~hist.stepFailed
    /\ Len(hist.page.console) = 2
    /\ Len(dbFacts["fact_console_output"]) = 4
    /\ dbFacts["fact_console_output"][4].seq = 2
    /\ dbFacts["fact_console_output"][4].session_id = 2

\* C29: the host dimension id stored for an action does not depend on the
\* order of its name server list: two actions with the same host, IP and
\* the same set of name servers in different orders get the same
\* dim_hosts id; when the host of the action is a bare IP address, host_id
\* is null.
C29_HostIdOrderFree ==
    (hist.op = "SaveSession" /\ hist.err = "nil" /\ ~hist.stepFailed) =>
        LET n      == Len(hist.page.actions)
            base   == Len(dbFacts["fact_actions"]) - n
            row(k) == dbFacts["fact_actions"][base + k]
            ns(k)  == {hist.page.actions[k].host.nameServers[i] :
                          i \in 1..Len(hist.page.actions[k].host.nameServers)}
        IN /\ \A j, k \in 1..n :
                 (/\ hist.page.actions[j].host.domain = hist.page.actions[k].host.domain
                  /\ hist.page.actions[j].host.ip = hist.page.actions[k].host.ip
                  /\ ns(j) = ns(k))
                 => row(j).host_id = row(k).host_id
           /\ \A k \in 1..n :
                 IsIP(hist.page.actions[k].host.domain) => row(k).host_id = Null

\* a committed page whose two actions list the name servers of one host in
\* different orders and share a dim_hosts id, after a committed page with
\* an action on a bare IP address
C29_Witness ==
    /\ hist.op = "SaveSession" /\ hist.err = "nil" /\ ~hist.stepFailed
    /\ Len(hist.page.actions) = 2
    /\ hist.page.actions[1].host.nameServers # hist.page.actions[2].host.nameServers
    /\ hist.page.actions[1].host.domain = hist.page.actions[2].host.domain
    /\ Len(dbFacts["fact_actions"]) = 4
    /\ dbFacts["fact_actions"][3].host_id = dbFacts["fact_actions"][4].host_id
    /\ dbFacts["fact_actions"][3].host_id # Null
    /\ dbFacts["fact_actions"][2].host_id = Null
    /\ dbFacts["fact_actions"][1].host_id # Null

C30_DocumentURLs ==
    \A w \in Workers :
        (/\ wpc[w] = "send"
         /\ wresp[w].err = NilStr
         /\ Len(wresp[w].actions) > 0
         /\ ~wresp[w].actions[1].body.nil)
        => wresp[w].documentURLs
              \in RetrieveLinks(wresp[w].initialURL, wresp[w].actions[1].body.raw)

C31_FirstErrorWins ==
    hist.op = "ActionsFromEvents" =>
        \A k \in 1..Len(hist.actions) :
            LET a     == hist.actions[k]
                \* the action that requests[RequestID] holds for its request-id
                held  == \A j \in (k + 1)..Len(hist.actions) : hist.actions[j].rid # a.rid
                errs  == {j \in 1..Len(hist.events.errors) :
                             hist.events.errors[j].rid = a.rid}
                resps == {j \in 1..Len(hist.events.responses) :
                             hist.events.responses[j].rid = a.rid}
            IN (held /\ errs # {}) =>
                  /\ \E j \in errs :
                        /\ \A m \in errs : j <= m
                        /\ a.error = Some(hist.events.errors[j].text)
                  /\ resps # {} =>
                        \E j \in resps :
                           /\ \A m \in resps : m <= j
                           /\ a.response = [nil |-> FALSE,
                                            status |-> hist.events.responses[j].status]

\* two loading-failed events with different texts for the request of an
\* action that also has a response
C31_Witness ==
    /\ hist.op = "ActionsFromEvents"
    /\ Len(hist.events.errors) = 2
    /\ hist.events.errors[1].text # hist.events.errors[2].text
    /\ Len(hist.actions) = 1
    /\ hist.actions[1].rid = 1
    /\ hist.actions[1].error = Some(hist.events.errors[1].text)
    /\ ~hist.actions[1].response.nil

\* C32: for every input ActionsFromEvents returns a list: no returned
\* action has a request URL with the scheme data, and the response,
\* loading-failed and body events whose request-id matches no retained
\* action are dropped without changing any action.
C32_OrphansDropped ==
    hist.op = "ActionsFromEvents" =>
        LET rids     == {hist.actions[k].rid : k \in 1..Len(hist.actions)}
            Keep(evs) == SelectSeq(evs, LAMBDA e : e.rid \in rids)
            matched  == [hist.events EXCEPT !.responses = Keep(@),
                                            !.errors = Keep(@),
                                            !.bodies = Keep(@)]
        IN /\ \A k \in 1..Len(hist.actions) :
                 hist.events.requests[hist.actions[k].sent].url # "data"
           /\ hist.actions = ActionsFromEvents(matched)

\* the request of a data: URL and a body event for it come with the request
\* of a document: one action, without a body
C32_Witness ==
    /\ hist.op = "ActionsFromEvents"
    /\ Len(hist.events.requests) = 2
    /\ hist.events.requests[1].url = "http" /\ hist.events.requests[1].rid = 1
    /\ hist.events.requests[2].url = "data" /\ hist.events.requests[2].rid = 2
    /\ Len(hist.events.bodies) = 1
    /\ Len(hist.events.responses) = 1 /\ hist.events.responses[1].rid = 2
    /\ Len(hist.actions) = 1
    /\ ~hist.actions[1].body
    /\ hist.actions[1].response.nil

\* C39: a failure to retrieve the body of one finished request does not
\* stop the body collection: the body of every request that finishes in
\* the same fetch and whose body can be retrieved is collected, unless the
\* reader is stopped first.
C39_BodiesAfterFailure ==
    \A i \in 1..MaxFinished :
        [](LET all == br.seen \o br.stream
           IN (/\ br.pc # "idle"
               /\ i <= Len(all)
               /\ all[i].reply # "err"
               /\ \E j \in 1..(i - 1) : all[j].reply = "err")
              => <>(\/ br.stop
                    \/ \E k \in 1..Len(br.out) : br.out[k].rid = i))

\* C40: the console reader does not fail on an event of type log, one with
\* zero arguments included, and its list holds exactly one message per log
\* event received before the reader was stopped, in emission order.
C40_ConsoleMessages ==
    cr.pc # "idle" =>
        LET logs == SelectSeq(cr.seen, LAMBDA e : e.type = "log")
        IN /\ cr.pc # "panic"
           /\ Len(cr.out) = Len(logs)
           /\ \A k \in 1..Len(logs) :
                 cr.out[k].msg = IF logs[k].args = <<>> THEN <<>>
                                 ELSE ConsoleText(logs[k].args).txt

\* C33: for the actions of a Page that SaveSession committed, ActionStore.Save
\* inserted one fact_urls row per action, one fact_request_headers row per
\* request header, one fact_post_data row per action with post-data, one
\* fact_initiator_stack row per action with a stack frame, response-header
\* and security-detail rows for the actions with a response only, and one
\* fact_bodies row per action that has a body.
C33_ChildRows ==
    (hist.op = "SaveSession" /\ hist.err = "nil" /\ ~hist.stepFailed) =>
        LET as     == hist.page.actions
            N(P(_)) == Cardinality({i \in 1..Len(as) : P(as[i])})
            reqH   == UNION {{<<i, j>> : j \in 1..Len(as[i].reqHeaders)} : i \in 1..Len(as)}
            respH  == UNION {{<<i, j>> : j \in 1..Len(as[i].resp.headers)}
                                : i \in {k \in 1..Len(as) : ~as[k].resp.nil}}
        IN /\ hist.newRows["fact_urls"] = Len(as)
           /\ hist.newRows["fact_request_headers"] = Cardinality(reqH)
           /\ hist.newRows["fact_post_data"] = N(LAMBDA a : ~a.postData.nil)
           /\ hist.newRows["fact_initiator_stack"] = N(LAMBDA a : ~a.stack.nil)
           /\ hist.newRows["fact_response_headers"] = Cardinality(respH)
           /\ hist.newRows["fact_security_details"]
                 = N(LAMBDA a : ~a.resp.nil /\ ~a.resp.security.nil)
           /\ hist.newRows["fact_bodies"] = N(LAMBDA a : ~a.body.nil)

\* C34: after any sequence of SaveSession calls, some of them rolled back,
\* the dimension ids of the committed fact rows refer to rows that exist in
\* their dimension table and hold the tuple the id was requested for; it is
\* stated for the scheme and the host of the fact_urls rows, whose url
\* column tells the tuples, and for the resolution of the sessions.
C34_DimensionIdsValid ==
    /\ \A k \in 1..Len(dbFacts["fact_urls"]) :
          LET row == dbFacts["fact_urls"][k]
              u   == CHOOSE v \in URLS \cup {IpURL} : UrlString(v) = row.url
              Ref(table, id, s) ==
                  /\ id \in 1..Len(dbDims[table])
                  /\ dbDims[table][id] = Tuple(<<SItem(S(s))>>)
          IN /\ Ref("dim_url_schemes", row.scheme_id, u.scheme)
             /\ Ref("dim_url_hosts", row.host_id, u.host)
    /\ \A k \in 1..Len(dbFacts["fact_sessions"]) :
          dbFacts["fact_sessions"][k].resolution_id
              \in 1..Len(dbDims["dim_resolutions"])

\* C35: IdStore.Get returns different ids for different argument tuples:
\* the id a successful Get returns is that of the row holding the tuple it
\* was called with, also when the values contain spaces or render to the
\* same text in the cache key.
C35_DistinctTuplesDistinctIds ==
    (hist.op = "Get" /\ hist.err = "nil") =>
        \A k \in 1..Len(hist.ids) : hist.held[k] = Tuple(hist.items)

\* C36: when the insert of a URL fails inside Add, Add returns a non-nil
\* error, the returned count is the number of rows inserted, and after
\* every Add the URL strings known in memory are those of url_visits (so
\* the URL whose insert failed is not in the maps).
C36_AddInsertFailure ==
    hist.op = "Add" =>
        /\ hist.dbFailed => hist.err # "nil"
        /\ hist.count = hist.rowsAdded
        /\ DOMAIN usStrings = {dbUrlVisits[k].url : k \in 1..Len(dbUrlVisits)}

\* C37: SaveSession is never executed by two goroutines at the same time:
\* every change of the database, of the IDStore caches and of the File
\* Store is a step of the response loop storing the one Page it holds, and
\* the loop takes the next Page from the response channel only when it is
\* back at its receive.
C37_SingleSaver ==
    [][/\ (\/ dbDims' # dbDims \/ dbFacts' # dbFacts \/ idCache' # idCache
           \/ fsKnown' # fsKnown \/ fsFiles' # fsFiles)
          => /\ rpc = "save" /\ rpc' = "emit"
             /\ hist'.op = "ResponseSave" /\ hist'.page = rpage
             /\ stats'.handled = stats.handled + 1
       /\ (rpage' # rpage /\ rpage' # NoPage)
          => /\ rpc = "recv" /\ rpc' = "save"
             /\ \E w \in Workers : wpc[w] = "send" /\ wresp[w] = rpage'
      ]_vars

\* the response loop stores the Page of one worker while the other worker
\* waits to send its own
C37_Witness ==
    /\ rpc = "emit"
    /\ hist.op = "ResponseSave"
    /\ Len(dbFacts["fact_sessions"]) > 0
    /\ \E w \in Workers : wpc[w] = "send"

\* C38: the dispatch loop, the workers, the response loop and AddWorker do
\* not deadlock on the task, response and ready channels: every Page a
\* worker sends is eventually received and then stored, every stored Page
\* is eventually followed by the publication of a further CrawlRequest as
\* long as the URL store is not empty, and AddWorker returns.
C38_NoChannelDeadlock ==
    /\ \A w \in Workers : (wpc[w] = "send") ~> (wpc[w] # "send")
    /\ (rpc = "save") ~> (rpc = "emit")
    /\ \A n \in 0..(MaxPublished - 1) :
          (rpc = "emit" /\ stats.published = n)
              ~> (stats.published > n \/ DOMAIN usUrls = {})
    /\ adding ~> ~adding

=============================================================================
